---- MODULE Spec2Model ----
(***************************************************************************)
(* Model of the speak-anywhere daemon core: the session state machine,     *)
(* the command handlers of DaemonCore, the transcription worker and the    *)
(* epoll dispatcher of LinuxEventLoop, with the ring buffer and the        *)
(* per-connection read buffers of IpcServer.                               *)
(***************************************************************************)
EXTENDS Integers, Sequences, FiniteSets, TLC

VARIABLES
    state,                  \* Session::state_
    window_context,         \* Session::window_context_
    capturing,              \* AudioCapture capturing flag
    ring,                   \* RingBuffer: [w, r, buf]
    focused_window,         \* DaemonCore::focused_window_
    pending_output_method,  \* DaemonCore::pending_output_method_
    waiting_clients,        \* DaemonCore::waiting_clients_
    worker_result,          \* DaemonCore::worker_result_
    wpc,                    \* position of the worker thread (worker_)
    wlocal,                 \* the worker lambda's captures and local result
    tokens,                 \* counter of worker_event_fd_
    conn,                   \* per fd: "closed", "open", "peer_closed"
    bufs,                   \* IpcServer::clients_[fd].buf
    dpc,                    \* position of the dispatcher thread
    sent,                   \* frames written by the latest dispatcher step
    obs,                    \* what the latest step did (calls it made)
    turn,                   \* bookkeeping of the current worker's turn
    env,                    \* the inputs the environment draws from (never changes)
    rq                      \* RingBuffer::write / read in progress: the threads' locals

vars == <<state, window_context, capturing, ring, focused_window,
          pending_output_method, waiting_clients, worker_result, wpc, wlocal,
          tokens, conn, bufs, dpc, sent, obs, turn, env, rq>>

----------------------------------------------------------------------------
(* Bounds of the model *)

NumConns == 2
RingCap == 3
MaxWrite == 2
CountCap == 2

Conns == 1..NumConns
Bytes == {1}

Min(a, b) == IF a < b THEN a ELSE b
Bump(n) == Min(n + 1, CountCap + 1)

RECURSIVE SeqsUpTo(_, _)
SeqsUpTo(S, n) ==
    IF n = 0 THEN {<<>>}
    ELSE LET shorter == SeqsUpTo(S, n - 1)
         IN  shorter \cup {Append(q, x) : q \in {t \in shorter : Len(t) = n - 1}, x \in S}

----------------------------------------------------------------------------
(* WindowInfo and the agent detector *)

EmptyWindow == [app_id |-> "", pid |-> 0, agent |-> "", context |-> ""]
Windows == {EmptyWindow,
            [app_id |-> "kitty", pid |-> 1, agent |-> "", context |-> ""]}
Agents == {"", "claude"}

\* DaemonCore::enrich_window_info; det is what detector_.detect(pid) found
enrich_window_info(info, det) ==
    IF info.pid > 0
    THEN IF det # ""
         THEN [info EXCEPT !.agent = det, !.context = "claude code on " \o info.app_id]
         ELSE [info EXCEPT !.context = info.app_id]
    ELSE info

\* the terminal classification in on_transcription_complete
is_terminal(ctx) == ctx.app_id \in {"kitty", "alacritty", "foot", "wezterm"}

----------------------------------------------------------------------------
(* RingBuffer *)

\* RingBuffer(capacity_bytes): buf_(capacity_bytes), both cursors 0
NewRing(capacity_bytes) == [w |-> 0, r |-> 0, buf |-> [i \in 0..(capacity_bytes - 1) |-> 0]]

EmptyRing == NewRing(RingCap)

\* RingBuffer::capacity_
capacity(rb) == Cardinality(DOMAIN rb.buf)

\* no write and no read in progress, nothing offered or returned yet
NoRingOp ==
    [ppc |-> "idle", pw |-> 0, pr |-> 0, pdata |-> <<>>, pn |-> 0, pk |-> 0, pret |-> 0,
     cpc |-> "idle", cr |-> 0, cw |-> 0, cn |-> 0, ck |-> 0, cout |-> <<>>,
     cop |-> "none", cret |-> <<>>,
     offered |-> 0, accepted |-> <<>>, consumed |-> <<>>]

available(rb) == rb.w - rb.r

\* write that accepts everything, the overflow overwriting unread bytes
RingWrite_overrun(rb, data) ==
    [ring |-> [rb EXCEPT
                 !.buf = [i \in DOMAIN rb.buf |->
                            LET ks == {k \in 0..(Len(data) - 1) :
                                         (rb.w + k) % capacity(rb) = i}
                            IN  IF ks = {} THEN rb.buf[i]
                                ELSE data[(CHOOSE k \in ks : \A j \in ks : j <= k) + 1]],
                 !.w = rb.w + Len(data)],
     n |-> Len(data)]

\* RingBuffer::write: returns the new ring and the accepted count
RingWrite(rb, data) ==
    LET avail == capacity(rb) - (rb.w - rb.r)
        to_write == Min(Len(data), avail)
    IN  [ring |-> [rb EXCEPT
                     !.buf = [i \in DOMAIN rb.buf |->
                                LET k == (i - rb.w) % capacity(rb)
                                IN  IF k < to_write THEN data[k + 1] ELSE rb.buf[i]],
                     !.w = rb.w + to_write],
         n |-> to_write]

\* RingBuffer::read: returns the new ring and the bytes copied out
RingRead(rb, max_len) ==
    LET avail == rb.w - rb.r
        to_read == Min(max_len, avail)
    IN  [ring |-> [rb EXCEPT !.r = rb.r + to_read],
         out |-> [k \in 1..to_read |-> rb.buf[(rb.r + k - 1) % capacity(rb)]]]

\* int16 samples out of a little-endian byte sequence of even length
Samples(bytes) == [k \in 1..(Len(bytes) \div 2) |-> <<bytes[2 * k - 1], bytes[2 * k]>>]

\* drain_all without the alignment to whole samples
drain_all_unaligned(rb) ==
    LET avail == rb.w - rb.r
        rd == RingRead(rb, avail)
    IN  IF avail = 0 THEN [ring |-> rb, samples |-> <<>>]
        ELSE [ring |-> rd.ring, samples |-> Samples(rd.out)]

\* RingBuffer::drain_all
drain_all(rb) ==
    LET avail == (rb.w - rb.r) - ((rb.w - rb.r) % 2)
        rd == RingRead(rb, avail)
    IN  IF avail = 0 THEN [ring |-> rb, samples |-> <<>>]
        ELSE [ring |-> rd.ring, samples |-> Samples(rd.out)]

\* a reset that leaves the cursors where they are
RingReset_kept(rb) == rb

\* RingBuffer::reset
RingReset(rb) == [rb EXCEPT !.r = 0, !.w = 0]

----------------------------------------------------------------------------
(* Frames, commands and transcription results *)

DefaultMethod == "clipboard"

\* a response object: the fields present and the values of the string fields
ErrorFrame(m) ==
    [status |-> "error", message |-> m, state |-> "", text |-> "",
     fields |-> {"status", "message"}]
OkMessage(m) ==
    [status |-> "ok", message |-> m, state |-> "", text |-> "",
     fields |-> {"status", "message"}]
DeferFrame ==
    [status |-> "transcribing", message |-> "", state |-> "", text |-> "",
     fields |-> {"status", "duration"}]
StatusFrame(st, withDuration) ==
    [status |-> "ok", message |-> "", state |-> st, text |-> "",
     fields |-> {"status", "state"} \cup (IF withDuration THEN {"duration"} ELSE {})]
HistoryFrame ==
    [status |-> "ok", message |-> "", state |-> "", text |-> "",
     fields |-> {"status", "entries"}]
ResultFrame(tr) ==
    [status |-> "ok", message |-> "", state |-> "", text |-> tr.text,
     fields |-> {"status", "text", "duration", "processing_time"}]

\* std::expected<TranscriptResult, std::string>
OkResult(t) == [ok |-> TRUE, text |-> t, error |-> ""]
ErrResult(m) == [ok |-> FALSE, text |-> "", error |-> m]
Results == {OkResult("hello"), OkResult(""), ErrResult("timeout")}

\* WorkerResult{} : a value-initialised expected holds an empty TranscriptResult
EmptySlot == [result |-> OkResult(""), context |-> EmptyWindow, output_method |-> ""]

NoLocal == [audio |-> <<>>, context |-> EmptyWindow, output_method |-> "",
            result |-> OkResult("")]

\* what a direct call of a Session operation returned
NoRet == [ok |-> TRUE, samples |-> <<>>]

NewTurn == [started |-> FALSE, sender |-> 0, overlap |-> FALSE, completions |-> 0, inserts |-> 0, delivers |-> 0,
            frames |-> [c \in Conns |-> 0]]

----------------------------------------------------------------------------
(* The dispatcher-owned state as one record, so that handlers compose *)

Core ==
    [state |-> state, window_context |-> window_context, capturing |-> capturing,
     ring |-> ring, focused_window |-> focused_window,
     pending_output_method |-> pending_output_method,
     waiting_clients |-> waiting_clients, worker_result |-> worker_result,
     wpc |-> wpc, wlocal |-> wlocal, turn |-> turn,
     calls |-> {}, inserted |-> <<>>, delivered |-> <<>>, out |-> <<>>,
     ret |-> NoRet]

Call(s, name) == [s EXCEPT !.calls = @ \cup {name}]

----------------------------------------------------------------------------
(* AudioCapture *)

\* PipeWireCapture::start; ok is whether the stream could be set up
capture_start(s, ok) ==
    IF s.capturing THEN [s |-> Call(s, "capture.start"), ok |-> TRUE]
    ELSE IF ~ok THEN [s |-> Call(s, "capture.start"), ok |-> FALSE]
    ELSE [s |-> [Call(s, "capture.start") EXCEPT !.ring = RingReset(@),
                                                 !.capturing = TRUE],
          ok |-> TRUE]

\* a stop that leaves the stream capturing
capture_stop_noop(s) == Call(s, "capture.stop")

\* PipeWireCapture::stop
capture_stop(s) == [Call(s, "capture.stop") EXCEPT !.capturing = FALSE]

----------------------------------------------------------------------------
(* Session *)

\* start_recording without its state check
start_recording_unchecked(s, window, ok) ==
    LET s1 == [Call(s, "ring.reset") EXCEPT !.ring = RingReset(@)]
        cs == capture_start(s1, ok)
    IN  IF ~cs.ok THEN [s |-> cs.s, ok |-> FALSE]
        ELSE [s |-> [cs.s EXCEPT !.window_context = window, !.state = "Recording"],
              ok |-> TRUE]

\* start_recording storing the snapshot before the capture is started
start_recording_snapshot_first(s, window, ok) ==
    IF s.state # "Idle" THEN [s |-> s, ok |-> FALSE]
    ELSE LET s1 == [Call(s, "ring.reset") EXCEPT !.ring = RingReset(@),
                                                 !.window_context = window]
             cs == capture_start(s1, ok)
         IN  IF ~cs.ok THEN [s |-> cs.s, ok |-> FALSE]
             ELSE [s |-> [cs.s EXCEPT !.state = "Recording"], ok |-> TRUE]

\* Session::start_recording
start_recording(s, window, ok) ==
    IF s.state # "Idle" THEN [s |-> s, ok |-> FALSE]
    ELSE LET s1 == [Call(s, "ring.reset") EXCEPT !.ring = RingReset(@)]
             cs == capture_start(s1, ok)
         IN  IF ~cs.ok THEN [s |-> cs.s, ok |-> FALSE]
             ELSE [s |-> [cs.s EXCEPT !.window_context = window,
                                      !.state = "Recording"],
                   ok |-> TRUE]

\* stop_recording without its state check
stop_recording_unchecked(s) ==
    LET s1 == capture_stop(s)
        d == drain_all(s1.ring)
    IN  [s |-> [Call(s1, "drain_all") EXCEPT !.ring = d.ring, !.state = "Transcribing"],
         samples |-> d.samples]

\* Session::stop_recording
stop_recording(s) ==
    IF s.state # "Recording" THEN [s |-> s, samples |-> <<>>]
    ELSE LET s1 == capture_stop(s)
             d == drain_all(s1.ring)
         IN  [s |-> [Call(s1, "drain_all") EXCEPT !.ring = d.ring,
                                                  !.state = "Transcribing"],
              samples |-> d.samples]

\* a set_transcribing that acts only during a recording
set_transcribing_guarded(s) ==
    IF s.state = "Recording" THEN [s EXCEPT !.state = "Transcribing"] ELSE s

\* Session::set_transcribing
set_transcribing(s) == [s EXCEPT !.state = "Transcribing"]

\* Session::set_idle
set_idle(s) == [s EXCEPT !.state = "Idle"]

----------------------------------------------------------------------------
(* IpcServer *)

MaxBuf == 5

\* the JSON documents a line can hold: "{" followed by one of these bodies
Bodies == {"start", "start+type", "stop", "stop+type", "toggle", "toggle+type",
           "status", "history", "nocmd", "other", "illtyped"}


\* the parsed object: cmd.value("cmd", ""), the output field ("" when absent),
\* and whether value() finds the types it asks for
Parsed(b) ==
    [cmd |-> CASE b \in {"start", "start+type"} -> "start"
               [] b \in {"stop", "stop+type"} -> "stop"
               [] b \in {"toggle", "toggle+type"} -> "toggle"
               [] b = "status" -> "status"
               [] b = "history" -> "history"
               [] b = "other" -> "bogus"
               [] OTHER -> "",
     output |-> IF b \in {"start+type", "stop+type", "toggle+type"} THEN "type" ELSE "",
     typed |-> b # "illtyped"]

NoCmd == [cmd |-> "", output |-> "", typed |-> TRUE]

\* nlohmann::json::parse succeeds on the line
IsJson(line) == Len(line) = 2 /\ line[1] = "{" /\ line[2] \in Bodies

\* std::string::find('\n'): the first index holding a newline, 0 when none
FindNewline(buf) ==
    IF \E i \in 1..Len(buf) : buf[i] = "NL"
    THEN CHOOSE i \in 1..Len(buf) : buf[i] = "NL" /\ \A j \in 1..(i - 1) : buf[j] # "NL"
    ELSE 0

\* IpcServer::read_command after recv() returned the chunk (n > 0)
read_command(buf, chunk) ==
    LET b1 == buf \o chunk
        pos == FindNewline(b1)
        line == SubSeq(b1, 1, pos - 1)
        rest == SubSeq(b1, pos + 1, Len(b1))
    IN  IF pos = 0 THEN [ok |-> FALSE, buf |-> b1, cmd |-> NoCmd]
        ELSE IF IsJson(line) THEN [ok |-> TRUE, buf |-> rest, cmd |-> Parsed(line[2])]
        ELSE [ok |-> FALSE, buf |-> rest, cmd |-> NoCmd]

\* IpcServer::send_response: whether ::send wrote the whole frame
send_response(fd) == conn[fd] = "open"

\* the chunks one recv() can deliver: a whole frame, the first part of a
\* frame, a line that is no JSON, two whole frames
Chunks ==
    {<<"{", b, "NL">> : b \in env.bodies}
    \cup {<<"{">>, <<"junk", "NL">>}
    \cup {<<"{", p[1], "NL", "{", p[2], "NL">> : p \in env.pairs}

----------------------------------------------------------------------------
(* DaemonCore *)

\* DaemonCore::start_transcription
start_transcription(s, audio, context, output_method) ==
    [Call(s, "start_transcription") EXCEPT
        !.worker_result = EmptySlot,
        !.turn = [NewTurn EXCEPT !.started = TRUE, !.overlap = (s.wpc # "none")],
        !.wpc = "call",
        !.wlocal = [audio |-> audio, context |-> context,
                    output_method |-> output_method, result |-> OkResult("")]]

\* handle_start storing the output method before it checks the state
handle_start_early(s, cmd, det, capOk) ==
    LET s1 == [s EXCEPT !.pending_output_method =
                           IF cmd.output = "" THEN DefaultMethod ELSE cmd.output]
        window == enrich_window_info(s1.focused_window, det)
        sr == start_recording(s1, window, capOk)
    IN  IF s.state # "Idle"
        THEN [s |-> s1, resp |-> ErrorFrame("already recording or transcribing")]
        ELSE IF ~sr.ok
        THEN [s |-> sr.s, resp |-> ErrorFrame("failed to start recording")]
        ELSE [s |-> sr.s, resp |-> OkMessage("recording")]

\* DaemonCore::handle_start
handle_start(s, cmd, det, capOk) ==
    IF s.state # "Idle"
    THEN [s |-> s, resp |-> ErrorFrame("already recording or transcribing")]
    ELSE LET s1 == [s EXCEPT !.pending_output_method =
                                IF cmd.output = "" THEN DefaultMethod ELSE cmd.output]
             window == enrich_window_info(s1.focused_window, det)
             sr == start_recording(s1, window, capOk)
         IN  IF ~sr.ok
             THEN [s |-> sr.s, resp |-> ErrorFrame("failed to start recording")]
             ELSE [s |-> sr.s, resp |-> OkMessage("recording")]

\* handle_stop rejecting only in Idle
handle_stop_loose(s) ==
    IF s.state = "Idle"
    THEN [s |-> s, resp |-> ErrorFrame("not recording")]
    ELSE LET st == stop_recording(s)
         IN  IF st.samples = <<>>
             THEN [s |-> set_idle(st.s), resp |-> ErrorFrame("no audio captured")]
             ELSE [s |-> start_transcription(st.s, st.samples, st.s.window_context,
                                             st.s.pending_output_method),
                   resp |-> DeferFrame]

\* handle_stop leaving the session in Transcribing when nothing was drained
handle_stop_stuck(s) ==
    IF s.state # "Recording"
    THEN [s |-> s, resp |-> ErrorFrame("not recording")]
    ELSE LET st == stop_recording(s)
         IN  IF st.samples = <<>>
             THEN [s |-> st.s, resp |-> ErrorFrame("no audio captured")]
             ELSE [s |-> start_transcription(st.s, st.samples, st.s.window_context,
                                             st.s.pending_output_method),
                   resp |-> DeferFrame]

\* DaemonCore::handle_stop
handle_stop(s) ==
    IF s.state # "Recording"
    THEN [s |-> s, resp |-> ErrorFrame("not recording")]
    ELSE LET st == stop_recording(s)
         IN  IF st.samples = <<>>
             THEN [s |-> set_idle(st.s), resp |-> ErrorFrame("no audio captured")]
             ELSE [s |-> start_transcription(st.s, st.samples, st.s.window_context,
                                             st.s.pending_output_method),
                   resp |-> DeferFrame]

\* a toggle that starts only in Idle and stops in every other state
handle_toggle_idle_only(s, cmd, det, capOk) ==
    IF s.state = "Idle" THEN handle_start(s, cmd, det, capOk)
    ELSE handle_stop(s)

\* DaemonCore::handle_toggle
handle_toggle(s, cmd, det, capOk) ==
    IF s.state = "Recording" THEN handle_stop(s)
    ELSE handle_start(s, cmd, det, capOk)

\* Session::recording_duration; elapsed is now - record_start_
recording_duration(s, elapsed) == IF s.state # "Recording" THEN 0 ELSE elapsed

\* a status that reports a duration in every state
handle_status_always_duration(s) ==
    [s |-> s,
     resp |-> CASE s.state = "Idle" -> StatusFrame("idle", TRUE)
                [] s.state = "Recording" -> StatusFrame("recording", TRUE)
                [] OTHER -> StatusFrame("transcribing", TRUE)]

\* DaemonCore::handle_status
handle_status(s) ==
    [s |-> s,
     resp |-> CASE s.state = "Idle" -> StatusFrame("idle", FALSE)
                [] s.state = "Recording" -> StatusFrame("recording", TRUE)
                [] OTHER -> StatusFrame("transcribing", FALSE)]

\* DaemonCore::handle_history
handle_history(s) == [s |-> Call(s, "history.recent"), resp |-> HistoryFrame]

\* DaemonCore::handle_command
handle_command(s, cmd, det, capOk) ==
    CASE cmd.cmd = "start" -> handle_start(s, cmd, det, capOk)
      [] cmd.cmd = "stop" -> handle_stop(s)
      [] cmd.cmd = "toggle" -> handle_toggle(s, cmd, det, capOk)
      [] cmd.cmd = "status" -> handle_status(s)
      [] cmd.cmd = "history" -> handle_history(s)
      [] OTHER -> [s |-> s, resp |-> ErrorFrame("unknown command")]

\* the loop over waiting_clients_ in on_transcription_complete
RECURSIVE FanOut(_, _)
FanOut(fds, response) ==
    IF fds = <<>> THEN <<>>
    ELSE <<[fd |-> Head(fds), frame |-> response, ok |-> send_response(Head(fds))]>>
         \o FanOut(Tail(fds), response)

\* the turn's count of completion frames that reached each connection
CountFrames(frames, out) ==
    [c \in Conns |-> IF \E i \in 1..Len(out) : out[i].fd = c /\ out[i].ok
                     THEN Bump(frames[c]) ELSE frames[c]]

\* on_transcription_complete inserting a history record for a failed result too
on_transcription_complete_records_failure(s, delivOk) ==
    LET s0 == Call(s, "on_transcription_complete")
        s1 == IF s0.wpc # "none" THEN [Call(s0, "join") EXCEPT !.wpc = "none"] ELSE s0
        wr == s1.worker_result
        tr == wr.result
        s2 == IF tr.ok /\ tr.text # ""
              THEN [Call(s1, "deliver") EXCEPT
                      !.delivered = Append(@, [text |-> tr.text,
                                               adapter |-> IF wr.output_method = "type"
                                                           THEN "type" ELSE "clipboard",
                                               is_terminal |-> is_terminal(wr.context),
                                               ok |-> delivOk]),
                      !.turn.delivers = Bump(@)]
              ELSE s1
        s3 == IF TRUE
              THEN [Call(s2, "insert") EXCEPT
                      !.inserted = Append(@, [text |-> tr.text, context |-> wr.context]),
                      !.turn.inserts = Bump(@)]
              ELSE s2
        response == IF tr.ok THEN ResultFrame(tr) ELSE ErrorFrame(tr.error)
        out == FanOut(s3.waiting_clients, response)
    IN  set_idle([s3 EXCEPT !.out = @ \o out,
                            !.waiting_clients = <<>>,
                            !.turn.sender = 0,
                            !.turn.completions = Bump(@),
                            !.turn.frames = CountFrames(@, out)])

\* on_transcription_complete failing the command when output->deliver fails
on_transcription_complete_output_fatal(s, delivOk) ==
    LET s0 == Call(s, "on_transcription_complete")
        s1 == IF s0.wpc # "none" THEN [Call(s0, "join") EXCEPT !.wpc = "none"] ELSE s0
        wr == s1.worker_result
        tr == wr.result
        s2 == IF tr.ok /\ tr.text # ""
              THEN [Call(s1, "deliver") EXCEPT
                      !.delivered = Append(@, [text |-> tr.text,
                                               adapter |-> IF wr.output_method = "type"
                                                           THEN "type" ELSE "clipboard",
                                               is_terminal |-> is_terminal(wr.context),
                                               ok |-> delivOk]),
                      !.turn.delivers = Bump(@)]
              ELSE s1
        s3 == IF tr.ok /\ (tr.text = "" \/ delivOk)
              THEN [Call(s2, "insert") EXCEPT
                      !.inserted = Append(@, [text |-> tr.text, context |-> wr.context]),
                      !.turn.inserts = Bump(@)]
              ELSE s2
        response == IF tr.ok /\ (tr.text = "" \/ delivOk) THEN ResultFrame(tr) ELSE ErrorFrame(IF tr.ok THEN "output failed" ELSE tr.error)
        out == FanOut(s3.waiting_clients, response)
    IN  set_idle([s3 EXCEPT !.out = @ \o out,
                            !.waiting_clients = <<>>,
                            !.turn.sender = 0,
                            !.turn.completions = Bump(@),
                            !.turn.frames = CountFrames(@, out)])

\* on_transcription_complete answering the waiters and leaving the session in
\* Transcribing
on_transcription_complete_stays(s, delivOk) ==
    LET s0 == Call(s, "on_transcription_complete")
        s1 == IF s0.wpc # "none" THEN [Call(s0, "join") EXCEPT !.wpc = "none"] ELSE s0
        wr == s1.worker_result
        tr == wr.result
        s2 == IF tr.ok /\ tr.text # ""
              THEN [Call(s1, "deliver") EXCEPT
                      !.delivered = Append(@, [text |-> tr.text,
                                               adapter |-> IF wr.output_method = "type"
                                                           THEN "type" ELSE "clipboard",
                                               is_terminal |-> is_terminal(wr.context),
                                               ok |-> delivOk]),
                      !.turn.delivers = Bump(@)]
              ELSE s1
        s3 == IF tr.ok
              THEN [Call(s2, "insert") EXCEPT
                      !.inserted = Append(@, [text |-> tr.text, context |-> wr.context]),
                      !.turn.inserts = Bump(@)]
              ELSE s2
        response == IF tr.ok THEN ResultFrame(tr) ELSE ErrorFrame(tr.error)
        out == FanOut(s3.waiting_clients, response)
    IN  [s3 EXCEPT !.out = @ \o out,
                   !.waiting_clients = <<>>,
                   !.turn.sender = 0,
                   !.turn.completions = Bump(@),
                   !.turn.frames = CountFrames(@, out)]

\* DaemonCore::on_transcription_complete, entered once the join can return;
\* delivOk is the outcome of output->deliver
on_transcription_complete(s, delivOk) ==
    LET s0 == Call(s, "on_transcription_complete")
        s1 == IF s0.wpc # "none" THEN [Call(s0, "join") EXCEPT !.wpc = "none"] ELSE s0
        wr == s1.worker_result
        tr == wr.result
        s2 == IF tr.ok /\ tr.text # ""
              THEN [Call(s1, "deliver") EXCEPT
                      !.delivered = Append(@, [text |-> tr.text,
                                               adapter |-> IF wr.output_method = "type"
                                                           THEN "type" ELSE "clipboard",
                                               is_terminal |-> is_terminal(wr.context),
                                               ok |-> delivOk]),
                      !.turn.delivers = Bump(@)]
              ELSE s1
        s3 == IF tr.ok
              THEN [Call(s2, "insert") EXCEPT
                      !.inserted = Append(@, [text |-> tr.text, context |-> wr.context]),
                      !.turn.inserts = Bump(@)]
              ELSE s2
        response == IF tr.ok THEN ResultFrame(tr) ELSE ErrorFrame(tr.error)
        out == FanOut(s3.waiting_clients, response)
    IN  set_idle([s3 EXCEPT !.out = @ \o out,
                            !.waiting_clients = <<>>,
                            !.turn.sender = 0,
                            !.turn.completions = Bump(@),
                            !.turn.frames = CountFrames(@, out)])

\* add_waiting_client losing the handle
add_waiting_client_lost(s, fd) == s

\* DaemonCore::add_waiting_client
add_waiting_client(s, fd) == [s EXCEPT !.waiting_clients = Append(@, fd)]

\* remove_waiting_client leaving the handle on the list
remove_waiting_client_noop(s, fd) == s

\* DaemonCore::remove_waiting_client
remove_waiting_client(s, fd) ==
    [s EXCEPT !.waiting_clients = SelectSeq(@, LAMBDA x : x # fd)]

\* set_focused_window that also rewrites the session's snapshot
set_focused_window_both(s, info) ==
    [s EXCEPT !.focused_window = info, !.window_context = info]

\* DaemonCore::set_focused_window
set_focused_window(s, info) == [s EXCEPT !.focused_window = info]

\* shutdown consuming the result slot whatever the session state
shutdown_always(s, delivOk) ==
    LET s1 == IF s.state = "Recording" THEN capture_stop(s) ELSE s
    IN  on_transcription_complete(s1, delivOk)

\* shutdown that only joins the worker
shutdown_discard(s, delivOk) ==
    LET s1 == IF s.state = "Recording" THEN capture_stop(s) ELSE s
    IN  IF s1.wpc # "none" THEN [Call(s1, "join") EXCEPT !.wpc = "none"] ELSE s1

\* shutdown leaving the audio capture as it is
shutdown_keeps_capture(s, delivOk) ==
    IF s.state = "Transcribing" THEN on_transcription_complete(s, delivOk)
    ELSE IF s.wpc # "none" THEN [Call(s, "join") EXCEPT !.wpc = "none"]
    ELSE s

\* DaemonCore::shutdown, entered once a pending join can return
shutdown(s, delivOk) ==
    LET s1 == IF s.state = "Recording" THEN capture_stop(s) ELSE s
    IN  IF s1.state = "Transcribing" THEN on_transcription_complete(s1, delivOk)
        ELSE IF s1.wpc # "none" THEN [Call(s1, "join") EXCEPT !.wpc = "none"]
        ELSE s1

----------------------------------------------------------------------------
(* The daemon: dispatcher (LinuxEventLoop::run), worker and producer threads *)

Install(s) ==
    /\ state' = s.state
    /\ window_context' = s.window_context
    /\ capturing' = s.capturing
    /\ ring' = s.ring
    /\ focused_window' = s.focused_window
    /\ pending_output_method' = s.pending_output_method
    /\ waiting_clients' = s.waiting_clients
    /\ worker_result' = s.worker_result
    /\ wpc' = s.wpc
    /\ wlocal' = s.wlocal
    /\ turn' = s.turn
    /\ env' = env
    /\ rq' = rq

coreVars == <<state, window_context, capturing, ring, focused_window,
              pending_output_method, waiting_clients, worker_result, wpc, wlocal,
              turn>>

Observe(op, s) ==
    [op |-> op, calls |-> s.calls, inserted |-> s.inserted,
     delivered |-> s.delivered, ret |-> s.ret]

\* the inputs of the daemon specification
DaemonEnv ==
    [bodies |-> {"start", "start+type", "stop", "toggle", "status", "illtyped"},
     agents |-> {""},
     results |-> {OkResult("hello"), ErrResult("timeout")},
     pairs |-> {},
     maxbuf |-> MaxBuf]

Init ==
    /\ env = DaemonEnv
    /\ rq = NoRingOp
    /\ state = "Idle"
    /\ window_context = EmptyWindow
    /\ capturing = FALSE
    /\ ring = EmptyRing
    /\ focused_window \in Windows
    /\ pending_output_method = ""
    /\ waiting_clients = <<>>
    /\ worker_result = EmptySlot
    /\ wpc = "none"
    /\ wlocal = NoLocal
    /\ tokens = 0
    /\ conn = [c \in Conns |-> "closed"]
    /\ bufs = [c \in Conns |-> <<>>]
    /\ dpc = "loop"
    /\ sent = <<>>
    /\ turn = NewTurn
    /\ obs = Observe("init", Core)

\* run(), listener branch: accept_client and EPOLL_CTL_ADD
Accept(c) ==
    /\ dpc = "loop"
    /\ conn[c] = "closed"
    /\ conn' = [conn EXCEPT ![c] = "open"]
    /\ bufs' = [bufs EXCEPT ![c] = <<>>]
    /\ sent' = <<>>
    /\ obs' = Observe("accept", Core)
    /\ UNCHANGED <<coreVars, tokens, dpc, env, rq>>

\* the peer closes its end of the connection
PeerClose(c) ==
    /\ dpc \in {"loop", "shutdown"}
    /\ conn[c] = "open"
    /\ conn' = [conn EXCEPT ![c] = "peer_closed"]
    /\ UNCHANGED <<coreVars, tokens, bufs, dpc, sent, obs, env, rq>>

\* the failure path leaving the connection's read buffer in place
CloseClient_keeps_buffer(c, op) ==
    \E s \in {LET r == remove_waiting_client(Core, c)
                IN  IF r.turn.sender = c THEN [r EXCEPT !.turn.sender = 0] ELSE r} :
        /\ conn' = [conn EXCEPT ![c] = "closed"]
        /\ bufs' = bufs
        /\ Install(s)
        /\ sent' = <<>>
        /\ obs' = Observe(op, s)
        /\ UNCHANGED <<tokens, dpc>>

\* run(), client branch when read_command fails: deregister, close, unwait
CloseClient(c, op) ==
    \E s \in {LET r == remove_waiting_client(Core, c)
                IN  IF r.turn.sender = c THEN [r EXCEPT !.turn.sender = 0] ELSE r} :
        /\ conn' = [conn EXCEPT ![c] = "closed"]
        /\ bufs' = [bufs EXCEPT ![c] = <<>>]
        /\ Install(s)
        /\ sent' = <<>>
        /\ obs' = Observe(op, s)
        /\ UNCHANGED <<tokens, dpc>>

\* std::terminate: the process and all its threads, memory and descriptors are gone
Crash ==
    /\ dpc' = "crashed"
    /\ Install([Core EXCEPT !.state = "Idle", !.window_context = EmptyWindow,
                            !.capturing = FALSE, !.ring = EmptyRing,
                            !.focused_window = EmptyWindow,
                            !.pending_output_method = "", !.waiting_clients = <<>>,
                            !.worker_result = EmptySlot, !.wpc = "none",
                            !.wlocal = NoLocal, !.turn = NewTurn])
    /\ tokens' = 0
    /\ conn' = [c \in Conns |-> "closed"]
    /\ bufs' = [c \in Conns |-> <<>>]
    /\ sent' = <<>>
    /\ obs' = Observe("crash", Core)

\* a dispatcher that never defers
is_deferred_never(resp) == FALSE

\* run(), client branch: response.value("status", "") == "transcribing"
is_deferred(resp) == resp.status = "transcribing"

\* the detector and the capture are consulted only by a start that is accepted
Consulted(rc, det, capOk) ==
    LET starts == rc.ok /\ rc.cmd.typed /\ state = "Idle"
                  /\ rc.cmd.cmd \in {"start", "toggle"}
    IN  /\ (~starts \/ focused_window.pid = 0) => det = ""
        /\ ~starts => capOk

\* a dispatcher that serves no client while the worker thread runs
ClientData_after_worker(c, chunk, det, capOk) ==
    /\ dpc = "loop"
    /\ state = "Transcribing" => wpc \in {"none", "exit"}
    /\ conn[c] = "open"
    /\ Len(bufs[c]) + Len(chunk) <= env.maxbuf
    /\ Consulted(read_command(bufs[c], chunk), det, capOk)
    /\ \E rc \in {read_command(bufs[c], chunk)} :
           IF ~rc.ok
           THEN CloseClient(c, IF FindNewline(bufs[c] \o chunk) = 0
                               THEN "read_failed" ELSE "malformed")
           ELSE IF ~rc.cmd.typed
           THEN \* cmd.value() throws type_error, nothing catches it
                Crash
           ELSE \E h \in {handle_command(Core, rc.cmd, det, capOk)} :
                LET deferred == is_deferred(h.resp)
                    hs == IF "start_transcription" \in h.s.calls
                          THEN [h.s EXCEPT !.turn.sender = c] ELSE h.s
                    s == IF deferred THEN add_waiting_client(hs, c) ELSE hs
                IN  /\ Install(s)
                    /\ sent' = IF deferred THEN <<>>
                               ELSE <<[fd |-> c, frame |-> h.resp, ok |-> send_response(c)]>>
                    /\ obs' = Observe("command", s)
                    /\ bufs' = [bufs EXCEPT ![c] = rc.buf]
                    /\ UNCHANGED <<tokens, conn, dpc>>

\* run(), client branch: a chunk arrives on fd c
ClientData(c, chunk, det, capOk) ==
    /\ dpc = "loop"
    /\ conn[c] = "open"
    /\ Len(bufs[c]) + Len(chunk) <= env.maxbuf
    /\ Consulted(read_command(bufs[c], chunk), det, capOk)
    /\ \E rc \in {read_command(bufs[c], chunk)} :
           IF ~rc.ok
           THEN CloseClient(c, IF FindNewline(bufs[c] \o chunk) = 0
                               THEN "read_failed" ELSE "malformed")
           ELSE IF ~rc.cmd.typed
           THEN \* cmd.value() throws type_error, nothing catches it
                Crash
           ELSE \E h \in {handle_command(Core, rc.cmd, det, capOk)} :
                LET deferred == is_deferred(h.resp)
                    hs == IF "start_transcription" \in h.s.calls
                          THEN [h.s EXCEPT !.turn.sender = c] ELSE h.s
                    s == IF deferred THEN add_waiting_client(hs, c) ELSE hs
                IN  /\ Install(s)
                    /\ sent' = IF deferred THEN <<>>
                               ELSE <<[fd |-> c, frame |-> h.resp, ok |-> send_response(c)]>>
                    /\ obs' = Observe("command", s)
                    /\ bufs' = [bufs EXCEPT ![c] = rc.buf]
                    /\ UNCHANGED <<tokens, conn, dpc>>

\* run(), client branch: recv returns 0 after the peer closed
ClientEOF(c) ==
    /\ dpc = "loop"
    /\ conn[c] = "peer_closed"
    /\ CloseClient(c, "eof")

\* run(), worker_event_fd_ branch; the join inside returns once the thread ended
WorkerEvent(delivOk) ==
    /\ dpc = "loop"
    /\ tokens > 0
    /\ wpc \in {"none", "exit"}
    /\ tokens' = 0
    /\ \E s \in {on_transcription_complete(Core, delivOk)} :
           /\ Install(s)
           /\ sent' = s.out
           /\ obs' = Observe("worker_event", s)
    /\ UNCHANGED <<conn, bufs, dpc>>

\* run(), window manager branch
FocusEvent(info) ==
    /\ dpc = "loop"
    /\ info # focused_window
    /\ \E s \in {set_focused_window(Core, info)} :
           /\ Install(s)
           /\ obs' = Observe("focus", s)
    /\ sent' = <<>>
    /\ UNCHANGED <<tokens, conn, bufs, dpc>>

\* a shutdown whose joins return while the worker thread is still running
Signal_nowait(delivOk) ==
    /\ dpc = "loop"
    /\ dpc' = "exited"
    /\ \E s \in {shutdown(Core, delivOk)} :
          /\ Install(s)
          /\ sent' = s.out
          /\ obs' = Observe("shutdown", s)
    /\ UNCHANGED <<tokens, conn, bufs>>

\* run(), signal_fd_ branch and the shutdown after the loop: running_ = false,
\* break, core_.shutdown(); when a join inside has to wait for the worker the
\* dispatcher stays in shutdown() until ShutdownJoin
Signal(delivOk) ==
    /\ dpc = "loop"
    /\ IF wpc \in {"none", "exit"}
       THEN /\ dpc' = "exited"
            /\ \E s \in {shutdown(Core, delivOk)} :
                  /\ Install(s)
                  /\ sent' = s.out
                  /\ obs' = Observe("shutdown", s)
       ELSE /\ delivOk
            /\ dpc' = "shutdown"
            /\ \E s \in {IF state = "Recording" THEN capture_stop(Core) ELSE Core} :
                  /\ Install(s)
                  /\ sent' = <<>>
                  /\ obs' = Observe("signal", s)
    /\ UNCHANGED <<tokens, conn, bufs>>

\* DaemonCore::shutdown resumes when the worker thread has ended
ShutdownJoin(delivOk) ==
    /\ dpc = "shutdown"
    /\ wpc \in {"none", "exit"}
    /\ dpc' = "exited"
    /\ \E s \in {shutdown(Core, delivOk)} :
           /\ Install(s)
           /\ sent' = s.out
           /\ obs' = Observe("shutdown", s)
    /\ UNCHANGED <<tokens, conn, bufs>>

\* worker lambda: backend_->transcribe returns
WorkerCall(res) ==
    /\ dpc # "crashed"
    /\ wpc = "call"
    /\ wlocal' = [wlocal EXCEPT !.result = res, !.audio = <<>>]
    /\ wpc' = "store"
    /\ UNCHANGED <<state, window_context, capturing, ring, focused_window,
                   pending_output_method, waiting_clients, worker_result, turn,
                   tokens, conn, bufs, dpc, sent, obs, env, rq>>

\* a worker that signals without having written the result slot
WorkerStore_skipped ==
    /\ dpc # "crashed"
    /\ wpc = "store"
    /\ worker_result' = worker_result
    /\ wpc' = "notify"
    /\ UNCHANGED <<state, window_context, capturing, ring, focused_window,
                   pending_output_method, waiting_clients, wlocal, turn,
                   tokens, conn, bufs, dpc, sent, obs, env, rq>>

\* worker lambda: worker_result_ = WorkerResult{...}
WorkerStore ==
    /\ dpc # "crashed"
    /\ wpc = "store"
    /\ worker_result' = [result |-> wlocal.result, context |-> wlocal.context,
                         output_method |-> wlocal.output_method]
    /\ wpc' = "notify"
    /\ UNCHANGED <<state, window_context, capturing, ring, focused_window,
                   pending_output_method, waiting_clients, wlocal, turn,
                   tokens, conn, bufs, dpc, sent, obs, env, rq>>

\* worker lambda: notify_() writes 1 to worker_event_fd_, then the thread ends
WorkerNotify ==
    /\ dpc # "crashed"
    /\ wpc = "notify"
    /\ tokens' = Bump(tokens)
    /\ wpc' = "exit"
    /\ wlocal' = NoLocal
    /\ UNCHANGED <<state, window_context, capturing, ring, focused_window,
                   pending_output_method, waiting_clients, worker_result,
                   turn, conn, bufs, dpc, sent, obs, env, rq>>

\* PipeWireCapture::on_process on the audio thread
ProducerWrite(data) ==
    /\ dpc # "crashed"
    /\ capturing
    /\ ring' = RingWrite(ring, data).ring
    /\ UNCHANGED <<state, window_context, capturing, focused_window,
                   pending_output_method, waiting_clients, worker_result, wpc,
                   wlocal, turn, tokens, conn, bufs, dpc, sent, obs, env, rq>>

Next ==
    \/ \E c \in Conns : Accept(c)
    \/ \E c \in Conns : PeerClose(c)
    \/ \E c \in Conns, chunk \in Chunks, det \in env.agents, capOk \in BOOLEAN :
          ClientData(c, chunk, det, capOk)
    \/ \E c \in Conns : ClientEOF(c)
    \/ \E delivOk \in BOOLEAN : WorkerEvent(delivOk)
    \/ \E info \in Windows : FocusEvent(info)
    \/ \E delivOk \in BOOLEAN : Signal(delivOk)
    \/ \E delivOk \in BOOLEAN : ShutdownJoin(delivOk)
    \/ \E res \in env.results : WorkerCall(res)
    \/ WorkerStore
    \/ WorkerNotify
    \/ \E data \in SeqsUpTo(Bytes, MaxWrite) \ {<<>>} : ProducerWrite(data)


Spec == Init /\ [][Next]_vars

----------------------------------------------------------------------------
(* The Session class driven directly, as tests/test_session.cpp drives it,  *)
(* with a producer that writes while the capture is on                      *)

EnrichedWindows == {enrich_window_info(w, det) : w \in Windows, det \in Agents}

SessFrame == UNCHANGED <<tokens, conn, bufs, dpc, sent>>

SessStart(window, ok) ==
    \E r \in {start_recording(Core, window, ok)} :
        /\ SessFrame
        /\ Install(r.s)
        /\ obs' = Observe("start_recording", [r.s EXCEPT !.ret.ok = r.ok])

SessStop ==
    \E r \in {stop_recording(Core)} :
        /\ SessFrame
        /\ Install(r.s)
        /\ obs' = Observe("stop_recording", [r.s EXCEPT !.ret.samples = r.samples])

SessSetTranscribing ==
    \E s \in {set_transcribing(Core)} :
        /\ SessFrame
        /\ Install(s)
        /\ obs' = Observe("set_transcribing", s)

SessSetIdle ==
    \E s \in {set_idle(Core)} :
        /\ SessFrame
        /\ Install(s)
        /\ obs' = Observe("set_idle", s)

NextSession ==
    \/ \E window \in EnrichedWindows, ok \in BOOLEAN : SessStart(window, ok)
    \/ SessStop
    \/ SessSetTranscribing
    \/ SessSetIdle
    \/ \E data \in SeqsUpTo(Bytes, MaxWrite) \ {<<>>} : ProducerWrite(data)

SpecSession == Init /\ [][NextSession]_vars

\* the daemon with the scheduling the claims on progress assume: the worker
\* thread runs to its end, and a readable worker_event_fd_ or a pending
\* shutdown() is served by the dispatcher
SpecLive ==
    /\ Init /\ [][Next]_vars
    /\ WF_vars(\E res \in env.results : WorkerCall(res))
    /\ WF_vars(WorkerStore)
    /\ WF_vars(WorkerNotify)
    /\ WF_vars(\E delivOk \in BOOLEAN : WorkerEvent(delivOk))
    /\ WF_vars(\E delivOk \in BOOLEAN : ShutdownJoin(delivOk))

----------------------------------------------------------------------------
(* Steps and frames the properties speak about *)

\* the dispatcher handles the frame with body b on connection c
CmdStep(c, b) ==
    \E det \in env.agents, capOk \in BOOLEAN : ClientData(c, <<"{", b, "NL">>, det, capOk)

StartLike(c) ==
    \/ CmdStep(c, "start")
    \/ CmdStep(c, "start+type")
    \/ CmdStep(c, "toggle") /\ state # "Recording"

StopLike(c) ==
    \/ CmdStep(c, "stop")
    \/ CmdStep(c, "toggle") /\ state = "Recording"

\* a step in which on_transcription_complete runs
CompletionStep ==
    \/ \E delivOk \in BOOLEAN : WorkerEvent(delivOk)
    \/ /\ state = "Transcribing"
       /\ dpc' = "exited"
       /\ \E delivOk \in BOOLEAN : Signal(delivOk) \/ ShutdownJoin(delivOk)

Reply(c, frame) == <<[fd |-> c, frame |-> frame, ok |-> TRUE]>>

ExpectedResponse(wr) ==
    IF wr.result.ok THEN ResultFrame(wr.result) ELSE ErrorFrame(wr.result.error)

IsCompletionFrame(f) ==
    \/ f.status = "ok" /\ f.fields = {"status", "text", "duration", "processing_time"}
    \/ f.status = "error" /\ f.fields = {"status", "message"}

Completed == obs.op \in {"worker_event", "shutdown"}
             /\ "on_transcription_complete" \in obs.calls

----------------------------------------------------------------------------
(* Properties *)

\* C1: start_transcription is never invoked while a worker is unjoined, and a
\* worker thread exists only for the turn that is being transcribed
C1_AtMostOneWorker ==
    /\ ~turn.overlap
    /\ wpc # "none" => (turn.started /\ turn.completions = 0)

C1_Witness ==
    /\ wpc = "call"
    /\ "start_transcription" \in obs.calls
    /\ \A c \in Conns : conn[c] = "open"
    /\ focused_window # window_context

\* C2: once a worker is started, the completion is eventually processed (the
\* session is Idle again), and the connection that sent the stop receives a
\* completion frame unless it stops being connected or the daemon is gone
C2_CompletionReachesSender ==
    /\ (wpc = "call") ~>
         (dpc = "crashed" \/ (wpc = "none" /\ state = "Idle" /\ turn.completions = 1))
    /\ \A c \in Conns :
         (wpc = "call" /\ turn.sender = c) ~>
           \/ dpc = "crashed"
           \/ conn[c] # "open"
           \/ /\ Completed
              /\ state = "Idle"
              /\ \E i \in 1..Len(sent) :
                    sent[i].fd = c /\ sent[i].ok /\ IsCompletionFrame(sent[i].frame)

C2_Witness ==
    /\ Completed
    /\ state = "Idle"
    /\ \E i \in 1..Len(sent) : sent[i].ok /\ sent[i].frame = ErrorFrame("timeout")

\* handling a frame with body b in the current state returns the sentinel
ReturnsSentinel(b) ==
    \E det \in env.agents, capOk \in BOOLEAN :
       handle_command(Core, Parsed(b), det, capOk).resp.status = "transcribing"

\* C3: no frame with status "transcribing" is written; a command whose handler
\* returns the sentinel writes nothing and appends its connection to the
\* waiting list
C3_SentinelNeverSent ==
    /\ [](\A i \in 1..Len(sent) : sent[i].frame.status # "transcribing")
    /\ [][obs'.op = "command" =>
            \A b \in {x \in env.bodies : Parsed(x).typed /\ ReturnsSentinel(x)} :
               \A c \in Conns :
                  CmdStep(c, b) =>
                     (sent' = <<>> /\ waiting_clients' = Append(waiting_clients, c))]_vars

C3_Witness ==
    /\ obs.op = "command"
    /\ "start_transcription" \in obs.calls
    /\ sent = <<>>
    /\ waiting_clients = <<2>>

\* C4: on_transcription_complete runs exactly once per started worker: never
\* while the worker is unjoined, once when it is joined; it sends each
\* connection at most one frame, inserts at most one record and calls the
\* output adapter at most once
C4_ConsumedOnce ==
    /\ turn.completions <= 1
    /\ turn.inserts <= 1
    /\ turn.delivers <= 1
    /\ \A c \in Conns : turn.frames[c] <= 1
    /\ turn.started => turn.completions = (IF wpc = "none" THEN 1 ELSE 0)
    /\ ~turn.started => turn.completions = 0

C4_Witness ==
    /\ dpc = "exited"
    /\ turn.completions = 1
    /\ turn.inserts = 1
    /\ turn.delivers = 1
    /\ tokens = 1
    /\ \E c \in Conns : turn.frames[c] = 1

\* C5: completion sends the response to exactly the connections on the waiting
\* list, in order, each send made whatever the outcome of the others; a
\* connection that was closed is not among them; afterwards the list is empty
\* and no connection was closed or unregistered by the completion
C5_FanOut ==
    [][CompletionStep =>
         /\ Len(sent') = Len(waiting_clients)
         /\ \A i \in 1..Len(waiting_clients) :
               /\ sent'[i].fd = waiting_clients[i]
               /\ sent'[i].frame = ExpectedResponse(worker_result)
               /\ sent'[i].ok = (conn[waiting_clients[i]] = "open")
               /\ conn[waiting_clients[i]] # "closed"
         /\ waiting_clients' = <<>>
         /\ conn' = conn
         /\ bufs' = bufs]_vars

C5_Witness ==
    /\ Completed
    /\ waiting_clients = <<>>
    /\ Len(sent) = 1
    /\ ~sent[1].ok
    /\ conn[sent[1].fd] = "peer_closed"
    /\ \E c \in Conns : conn[c] = "open"

\* C6: a shutdown that finds the session Transcribing ends only after the
\* worker has ended and been joined, the result was sent to every connection
\* on the waiting list and, on success, the history record was inserted
C6_ShutdownDelivers ==
    [][(state = "Transcribing" /\ dpc' = "exited") =>
         /\ wpc = "exit"
         /\ wpc' = "none"
         /\ state' = "Idle"
         /\ Len(sent') = Len(waiting_clients)
         /\ \A i \in 1..Len(waiting_clients) :
               /\ sent'[i].fd = waiting_clients[i]
               /\ sent'[i].frame = ExpectedResponse(worker_result)
         /\ worker_result.result = wlocal.result \/ wlocal = NoLocal
         /\ IF worker_result.result.ok
            THEN obs'.inserted = <<[text |-> worker_result.result.text,
                                    context |-> worker_result.context]>>
            ELSE obs'.inserted = <<>>]_vars

C6_Witness ==
    /\ dpc = "exited"
    /\ Completed
    /\ Len(obs.inserted) = 1
    /\ Len(sent) = 1
    /\ sent[1].ok
    /\ sent[1].frame.text = "hello"

\* C7 as stated: the state changes only along Idle->Recording,
\* Recording->Transcribing and Transcribing->Idle
ReferenceAutomaton ==
    {<<"Idle", "Recording">>, <<"Recording", "Transcribing">>, <<"Transcribing", "Idle">>}

C7_ReferenceAutomatonOnly ==
    [][state' # state => <<state, state'>> \in ReferenceAutomaton]_vars

\* C7 amended: start_recording moves Idle to Recording and is rejected with the
\* state unchanged anywhere else, stop_recording moves Recording to
\* Transcribing and returns nothing with the state unchanged anywhere else,
\* set_transcribing and set_idle write the state whatever it was
C7_SessionTransitions ==
    [][/\ \A window \in EnrichedWindows, ok \in BOOLEAN :
            SessStart(window, ok) =>
               IF state = "Idle"
               THEN /\ obs'.ret.ok = (ok \/ capturing)
                    /\ state' = (IF obs'.ret.ok THEN "Recording" ELSE "Idle")
               ELSE ~obs'.ret.ok /\ state' = state
       /\ SessStop =>
               IF state = "Recording" THEN state' = "Transcribing"
               ELSE obs'.ret.samples = <<>> /\ state' = state
       /\ SessSetTranscribing => state' = "Transcribing"
       /\ SessSetIdle => state' = "Idle"]_vars

C7_Witness ==
    /\ obs.op = "start_recording"
    /\ ~obs.ret.ok
    /\ state = "Transcribing"
    /\ ~capturing

\* C8: a start, or a toggle acting as start, outside Idle is answered with the
\* error and changes nothing
C8_StartRejected ==
    [][\A c \in Conns :
         (state # "Idle" /\ obs'.op = "command" /\ StartLike(c)) =>
            /\ sent' = Reply(c, ErrorFrame("already recording or transcribing"))
            /\ UNCHANGED <<state, window_context, capturing, ring, focused_window,
                           pending_output_method, waiting_clients, worker_result,
                           wpc, wlocal, turn, tokens>>]_vars

C8_Witness ==
    /\ sent = Reply(2, ErrorFrame("already recording or transcribing"))
    /\ state = "Recording"
    /\ pending_output_method = "clipboard"
    /\ available(ring) = 1

\* C9: a stop outside Recording is answered "not recording" and changes
\* nothing; stop_recording outside Recording returns no samples and keeps the
\* state
C9_StopRejected ==
    /\ [][\A c \in Conns :
            (state # "Recording" /\ obs'.op = "command" /\ CmdStep(c, "stop")) =>
               /\ sent' = Reply(c, ErrorFrame("not recording"))
               /\ UNCHANGED <<state, window_context, capturing, ring, focused_window,
                              pending_output_method, waiting_clients, worker_result,
                              wpc, wlocal, turn, tokens>>]_vars
    /\ [](state # "Recording" =>
            /\ stop_recording(Core).samples = <<>>
            /\ stop_recording(Core).s = Core)

C9_Witness ==
    /\ sent = Reply(2, ErrorFrame("not recording"))
    /\ state = "Transcribing"
    /\ waiting_clients = <<1>>
    /\ wpc = "call"

\* C10: a stop, or a toggle acting as stop, in Recording with fewer than 2
\* bytes in the ring is answered "no audio captured", starts no worker, adds
\* no waiter and leaves the session Idle
C10_NoAudio ==
    [][\A c \in Conns :
         (state = "Recording" /\ available(ring) < 2 /\ obs'.op = "command"
          /\ StopLike(c)) =>
            /\ sent' = Reply(c, ErrorFrame("no audio captured"))
            /\ state' = "Idle"
            /\ ~capturing'
            /\ wpc = "none" /\ wpc' = "none"
            /\ UNCHANGED <<waiting_clients, worker_result, turn, tokens>>]_vars

C10_Witness ==
    /\ sent = Reply(1, ErrorFrame("no audio captured"))
    /\ state = "Idle"
    /\ available(ring) = 1
    /\ "drain_all" \in obs.calls

----------------------------------------------------------------------------
(* The daemon with a process detector that finds agents: focus and snapshot *)

FocusEnv ==
    [bodies |-> {"start", "stop", "toggle", "illtyped"},
     agents |-> Agents,
     results |-> {OkResult("hello")},
     pairs |-> {},
     maxbuf |-> MaxBuf]

InitFocus ==
    /\ env = FocusEnv
    /\ rq = NoRingOp
    /\ state = "Idle"
    /\ window_context = EmptyWindow
    /\ capturing = FALSE
    /\ ring = EmptyRing
    /\ focused_window \in Windows
    /\ pending_output_method = ""
    /\ waiting_clients = <<>>
    /\ worker_result = EmptySlot
    /\ wpc = "none"
    /\ wlocal = NoLocal
    /\ tokens = 0
    /\ conn = [c \in Conns |-> "closed"]
    /\ bufs = [c \in Conns |-> <<>>]
    /\ dpc = "loop"
    /\ sent = <<>>
    /\ turn = NewTurn
    /\ obs = Observe("init", Core)

SpecFocus == InitFocus /\ [][Next]_vars

\* C11: the snapshot is the enriched focused-window cache of the accepted
\* start; it changes at no other step; the worker and the completion (history
\* record, terminal classification) use it; a focus event replaces only the
\* cache
C11_SnapshotAtStart ==
    /\ [](/\ wpc \in {"call", "store"} => wlocal.context = window_context
          /\ wpc \in {"notify", "exit"} => worker_result.context = window_context)
    /\ [][/\ window_context' # window_context =>
               \/ dpc' = "crashed"
               \/ /\ state = "Idle" /\ state' = "Recording" /\ obs'.op = "command"
                  /\ \A c \in Conns, b \in env.bodies, det \in env.agents, capOk \in BOOLEAN :
                        ClientData(c, <<"{", b, "NL">>, det, capOk) =>
                           window_context' = enrich_window_info(focused_window, det)
          /\ \A info \in Windows :
               (obs'.op = "focus" /\ FocusEvent(info)) =>
               /\ focused_window' = info
               /\ UNCHANGED <<state, window_context, capturing, ring,
                              pending_output_method, waiting_clients,
                              worker_result, wpc, wlocal, turn, tokens>>
          /\ (state = "Transcribing" /\ state' = "Idle") =>
               /\ \A i \in 1..Len(obs'.inserted) :
                     obs'.inserted[i].context = window_context
               /\ \A i \in 1..Len(obs'.delivered) :
                     obs'.delivered[i].is_terminal = is_terminal(window_context)]_vars

C11_Witness ==
    /\ Completed
    /\ Len(obs.inserted) = 1
    /\ obs.inserted[1].context.agent = "claude"
    /\ obs.inserted[1].context.context = "claude code on kitty"
    /\ focused_window = EmptyWindow
    /\ Len(obs.delivered) = 1
    /\ obs.delivered[1].is_terminal

----------------------------------------------------------------------------
(* The ring alone: one producer thread in write, one consumer thread in    *)
(* read or drain_all, every load, byte copy and cursor store a step        *)

MaxOffered == 5

IsPrefix(a, b) == Len(a) <= Len(b) /\ \A i \in 1..Len(a) : a[i] = b[i]

RingFrame ==
    UNCHANGED <<state, window_context, capturing, focused_window,
                pending_output_method, waiting_clients, worker_result, wpc,
                wlocal, tokens, conn, bufs, dpc, sent, obs, turn, env>>

\* write(data, len) is entered: w = write_pos_.load(relaxed); the bytes
\* offered are numbered in the order they are offered
WriteLoadW(len) ==
    /\ rq.ppc = "idle"
    /\ rq.offered + len <= MaxOffered
    /\ rq' = [rq EXCEPT !.ppc = "load_r", !.pw = ring.w,
                        !.pdata = [i \in 1..len |-> rq.offered + i],
                        !.offered = @ + len]
    /\ UNCHANGED ring
    /\ RingFrame

\* write with avail computed without the consumer's cursor
WriteLoadR_stale ==
    /\ rq.ppc = "load_r"
    /\ rq' = [rq EXCEPT !.pr = rq.pw, !.pn = Min(Len(rq.pdata), capacity(ring)),
                        !.pk = 0, !.ppc = "copy"]
    /\ UNCHANGED ring
    /\ RingFrame

\* r = read_pos_.load(acquire); avail; to_write; if (to_write == 0) return 0
WriteLoadR ==
    /\ rq.ppc = "load_r"
    /\ LET avail == capacity(ring) - (rq.pw - ring.r)
           to_write == Min(Len(rq.pdata), avail)
       IN  rq' = IF to_write = 0
                 THEN [rq EXCEPT !.ppc = "idle", !.pr = ring.r, !.pn = 0,
                                 !.pret = 0, !.pdata = <<>>]
                 ELSE [rq EXCEPT !.ppc = "copy", !.pr = ring.r, !.pn = to_write,
                                 !.pk = 0]
    /\ UNCHANGED ring
    /\ RingFrame

\* the memcpy calls of write, one byte at a time
WriteCopy ==
    /\ rq.ppc = "copy"
    /\ ring' = [ring EXCEPT !.buf[(rq.pw + rq.pk) % capacity(ring)] = rq.pdata[rq.pk + 1]]
    /\ rq' = [rq EXCEPT !.pk = @ + 1,
                        !.ppc = IF rq.pk + 1 = rq.pn THEN "store" ELSE "copy"]
    /\ RingFrame

\* write publishing the offset in the buffer instead of the running count
WriteStore_wrapped ==
    /\ rq.ppc = "store"
    /\ ring' = [ring EXCEPT !.w = (rq.pw + rq.pn) % capacity(ring)]
    /\ rq' = [rq EXCEPT !.ppc = "idle", !.pret = rq.pn, !.pdata = <<>>, !.pk = 0,
                        !.accepted = @ \o SubSeq(rq.pdata, 1, rq.pn)]
    /\ RingFrame

\* write_pos_.store(w + to_write, release); return to_write
WriteStore ==
    /\ rq.ppc = "store"
    /\ ring' = [ring EXCEPT !.w = rq.pw + rq.pn]
    /\ rq' = [rq EXCEPT !.ppc = "idle", !.pret = rq.pn, !.pdata = <<>>, !.pk = 0,
                        !.accepted = @ \o SubSeq(rq.pdata, 1, rq.pn)]
    /\ RingFrame

\* read(dest, max_len) is entered: r = read_pos_.load(relaxed)
ReadLoadR(max_len) ==
    /\ \/ rq.cpc = "idle" /\ rq' = [rq EXCEPT !.cpc = "load_w", !.cop = "read",
                                              !.cr = ring.r, !.cn = max_len,
                                              !.cout = <<>>, !.cret = <<>>]
       \/ rq.cpc = "drain_read" /\ max_len = rq.cn
          /\ rq' = [rq EXCEPT !.cpc = "load_w", !.cr = ring.r]
    /\ UNCHANGED ring
    /\ RingFrame

\* w = write_pos_.load(acquire); avail; to_read; if (to_read == 0) return 0
ReadLoadW ==
    /\ rq.cpc = "load_w"
    /\ LET to_read == Min(rq.cn, ring.w - rq.cr)
       IN  rq' = IF to_read = 0
                 THEN [rq EXCEPT !.cpc = "idle", !.cw = ring.w, !.cn = 0, !.cret = <<>>]
                 ELSE [rq EXCEPT !.cpc = "copy", !.cw = ring.w, !.cn = to_read, !.ck = 0]
    /\ UNCHANGED ring
    /\ RingFrame

\* the memcpy calls of read, one byte at a time
ReadCopy ==
    /\ rq.cpc = "copy"
    /\ rq' = [rq EXCEPT !.cout = Append(@, ring.buf[(rq.cr + rq.ck) % capacity(ring)]),
                        !.ck = @ + 1,
                        !.cpc = IF rq.ck + 1 = rq.cn THEN "store" ELSE "copy"]
    /\ UNCHANGED ring
    /\ RingFrame

\* read_pos_.store(r + to_read, release); return to_read
ReadStore ==
    /\ rq.cpc = "store"
    /\ ring' = [ring EXCEPT !.r = rq.cr + rq.cn]
    /\ rq' = [rq EXCEPT !.cpc = "idle", !.cret = rq.cout, !.cout = <<>>, !.ck = 0,
                        !.consumed = @ \o rq.cout]
    /\ RingFrame

\* drain_all is entered: r = read_pos_.load(relaxed)
DrainLoadR ==
    /\ rq.cpc = "idle"
    /\ rq' = [rq EXCEPT !.cpc = "drain_w", !.cop = "drain", !.cr = ring.r,
                        !.cout = <<>>, !.cret = <<>>]
    /\ UNCHANGED ring
    /\ RingFrame

\* w = write_pos_.load(acquire); avail &= ~1; if (avail == 0) return {};
\* otherwise read(samples.data(), avail) is called
DrainLoadW ==
    /\ rq.cpc = "drain_w"
    /\ LET avail == (ring.w - rq.cr) - ((ring.w - rq.cr) % 2)
       IN  rq' = IF avail = 0
                 THEN [rq EXCEPT !.cpc = "idle", !.cw = ring.w, !.cn = 0]
                 ELSE [rq EXCEPT !.cpc = "drain_read", !.cw = ring.w, !.cn = avail]
    /\ UNCHANGED ring
    /\ RingFrame

\* reset(), called by the thread that owns the consumer side while the
\* producer is not in write
ResetRing ==
    /\ rq.ppc = "idle"
    /\ rq.cpc = "idle"
    /\ ring.w > 0
    /\ ring' = RingReset(ring)
    /\ rq' = [rq EXCEPT !.accepted = <<>>, !.consumed = <<>>, !.cret = <<>>, !.pret = 0]
    /\ RingFrame

NextRing ==
    \/ \E len \in 1..(RingCap + 1) : WriteLoadW(len)
    \/ WriteLoadR
    \/ WriteCopy
    \/ WriteStore
    \/ \E max_len \in 1..(RingCap + 1) : ReadLoadR(max_len)
    \/ ReadLoadW
    \/ ReadCopy
    \/ ReadStore
    \/ DrainLoadR
    \/ DrainLoadW
    \/ ResetRing

SpecRing == Init /\ [][NextRing]_vars

\* the cells an operation in its copy or store phase reads or writes
WriteCells == IF rq.ppc \in {"copy", "store"}
              THEN {(rq.pw + k) % capacity(ring) : k \in 0..(rq.pn - 1)} ELSE {}
ReadCells == IF rq.cpc \in {"copy", "store"}
             THEN {(rq.cr + k) % capacity(ring) : k \in 0..(rq.cn - 1)} ELSE {}

\* C12: the bytes returned to the consumer, those of a read in progress
\* included, are a prefix of the bytes accepted from the producer; a read
\* copies only cells below the published write cursor and a write copies only
\* into cells the consumer has released, so the two never touch the same cell
C12_ConsumerReadsPrefix ==
    /\ IsPrefix(rq.consumed \o rq.cout, rq.accepted)
    /\ \A i \in 1..(Len(rq.accepted) - 1) : rq.accepted[i] < rq.accepted[i + 1]
    /\ WriteCells \cap ReadCells = {}
    /\ rq.cpc \in {"copy", "store"} => rq.cr + rq.cn <= ring.w
    /\ rq.ppc \in {"copy", "store"} => (rq.pw + rq.pn) - ring.r <= capacity(ring)

C12_Witness ==
    /\ rq.ppc = "copy"
    /\ rq.cpc = "store"
    /\ rq.pw >= capacity(ring)
    /\ Len(rq.consumed) >= 2
    /\ Len(rq.cout) = 1
    /\ rq.pn = 2 /\ rq.pk = 1

----------------------------------------------------------------------------
(* The ring used by one thread: whole calls of write, read, drain_all and  *)
(* reset in any order, on a ring large enough for seven bytes              *)

SeqCap == 7
MaxSeqOffered == 9

InitSeq ==
    /\ env = DaemonEnv
    /\ rq = NoRingOp
    /\ state = "Idle"
    /\ window_context = EmptyWindow
    /\ capturing = FALSE
    /\ ring = NewRing(SeqCap)
    /\ focused_window = EmptyWindow
    /\ pending_output_method = ""
    /\ waiting_clients = <<>>
    /\ worker_result = EmptySlot
    /\ wpc = "none"
    /\ wlocal = NoLocal
    /\ tokens = 0
    /\ conn = [c \in Conns |-> "closed"]
    /\ bufs = [c \in Conns |-> <<>>]
    /\ dpc = "loop"
    /\ sent = <<>>
    /\ turn = NewTurn
    /\ obs = Observe("init", Core)

\* rb.write(data, len) with the bytes numbered in the order they are offered
SeqWrite(len) ==
    /\ rq.offered + len <= MaxSeqOffered
    /\ LET data == [i \in 1..len |-> rq.offered + i]
       IN  \E wr \in {RingWrite(ring, data)} :
              /\ ring' = wr.ring
              /\ rq' = [rq EXCEPT !.cop = "write", !.pdata = data, !.pret = wr.n,
                                  !.offered = @ + len,
                                  !.accepted = @ \o SubSeq(data, 1, wr.n)]
    /\ RingFrame

\* rb.read(dest, max_len)
SeqRead(max_len) ==
    /\ \E rd \in {RingRead(ring, max_len)} :
          /\ ring' = rd.ring
          /\ rq' = [rq EXCEPT !.cop = "read", !.cn = max_len, !.cret = rd.out,
                              !.consumed = @ \o rd.out]
    /\ RingFrame

\* rb.drain_all()
SeqDrain ==
    /\ \E d \in {drain_all(ring)} :
          /\ ring' = d.ring
          /\ rq' = [rq EXCEPT !.cop = "drain", !.cret = d.samples,
                              !.consumed = @ \o [i \in 1..(2 * Len(d.samples)) |->
                                                   d.samples[(i + 1) \div 2][2 - (i % 2)]]]
    /\ RingFrame

\* rb.reset()
SeqReset ==
    /\ ring.w > 0
    /\ ring' = RingReset(ring)
    /\ rq' = [rq EXCEPT !.cop = "reset", !.accepted = <<>>, !.consumed = <<>>,
                        !.cret = <<>>, !.pret = 0]
    /\ RingFrame

NextSeq ==
    \/ \E len \in 1..(SeqCap + 1) : SeqWrite(len)
    \/ \E max_len \in 1..(SeqCap + 1) : SeqRead(max_len)
    \/ SeqDrain
    \/ SeqReset

SpecRingSeq == InitSeq /\ [][NextSeq]_vars

\* the bytes accepted and not yet returned, in write order
Unread == SubSeq(rq.accepted, Len(rq.consumed) + 1, Len(rq.accepted))

\* C13: write accepts min(n, B - (W - R)) bytes, the first ones offered, and
\* advances W by that count, leaving R and the unread bytes as they were; a
\* read returns the oldest unread bytes, none when nothing is unread
C13_ShortWrite ==
    [][/\ \A len \in 1..(SeqCap + 1) :
            SeqWrite(len) =>
               /\ rq'.pret = Min(len, capacity(ring) - (ring.w - ring.r))
               /\ ring'.w = ring.w + rq'.pret
               /\ ring'.r = ring.r
               /\ rq'.accepted = rq.accepted \o [i \in 1..rq'.pret |-> rq.offered + i]
               /\ RingRead(ring', capacity(ring)).out
                     = RingRead(ring, capacity(ring)).out
                       \o [i \in 1..rq'.pret |-> rq.offered + i]
       /\ \A max_len \in 1..(SeqCap + 1) :
            SeqRead(max_len) =>
               /\ rq'.cret = SubSeq(Unread, 1, Min(max_len, Len(Unread)))
               /\ ring'.r = ring.r + Len(rq'.cret)
               /\ ring'.w = ring.w
               /\ ring.w = ring.r => rq'.cret = <<>>]_vars

\* an empty ring of capacity B took B of B+1 bytes, a read returned those B,
\* and the next read returned nothing
C13_Witness ==
    /\ rq.offered = capacity(ring) + 1
    /\ rq.accepted = [i \in 1..capacity(ring) |-> i]
    /\ rq.consumed = rq.accepted
    /\ rq.cop = "read"
    /\ rq.cret = <<>>
    /\ ring.w = capacity(ring)

\* C15: drain_all returns the unread bytes, rounded down to whole 2-byte
\* samples, in write order, and leaves fewer than 2 bytes available: a
\* trailing odd byte stays in the ring
C15_DrainAligned ==
    [][SeqDrain =>
         /\ Len(rq'.cret) = Len(Unread) \div 2
         /\ \A k \in 1..Len(rq'.cret) :
               rq'.cret[k] = <<Unread[2 * k - 1], Unread[2 * k]>>
         /\ available(ring') = Len(Unread) % 2
         /\ available(ring') < 2
         /\ ring'.w = ring.w
         /\ ring'.r = ring.r + 2 * Len(rq'.cret)]_vars

\* seven bytes were available: three samples came out and one byte stayed
C15_Witness ==
    /\ rq.cop = "drain"
    /\ Len(rq.accepted) = 7
    /\ Len(rq.cret) = 3
    /\ rq.cret[3] = <<5, 6>>
    /\ available(ring) = 1
    /\ RingRead(ring, 1).out = <<7>>

\* C14 as stated: neither cursor ever decreases
C14_CursorsNeverDecrease ==
    [][ring'.w >= ring.w /\ ring'.r >= ring.r]_vars

\* C14 amended: W >= R and W - R <= B always; no step of write, read or
\* drain_all decreases a cursor; reset, made while no write or read is in
\* progress, sets both cursors to 0
C14_CursorInvariants ==
    /\ [](ring.w >= ring.r /\ ring.w - ring.r <= capacity(ring))
    /\ [][IF ResetRing THEN ring'.w = 0 /\ ring'.r = 0
          ELSE ring'.w >= ring.w /\ ring'.r >= ring.r]_vars

\* the ring is full past the wrap point while a read is in progress
C14_Witness ==
    /\ ring.w - ring.r = capacity(ring)
    /\ ring.w > capacity(ring)
    /\ rq.cpc = "copy"
    /\ rq.ppc = "idle"
    /\ rq.pret > 0

----------------------------------------------------------------------------
(* The daemon with clients whose writes arrive two frames to a chunk *)

\* the longest buffer the two-frame clients are followed to
MaxFrameBuf == 6

FramesEnv ==
    [bodies |-> {"toggle"},
     agents |-> {""},
     results |-> {OkResult("hello")},
     pairs |-> {<<"toggle", "toggle">>},
     maxbuf |-> MaxFrameBuf]

InitFrames ==
    /\ env = FramesEnv
    /\ rq = NoRingOp
    /\ state = "Idle"
    /\ window_context = EmptyWindow
    /\ capturing = FALSE
    /\ ring = EmptyRing
    /\ focused_window = EmptyWindow
    /\ pending_output_method = ""
    /\ waiting_clients = <<>>
    /\ worker_result = EmptySlot
    /\ wpc = "none"
    /\ wlocal = NoLocal
    /\ tokens = 0
    /\ conn = [c \in Conns |-> "closed"]
    /\ bufs = [c \in Conns |-> <<>>]
    /\ dpc = "loop"
    /\ sent = <<>>
    /\ turn = NewTurn
    /\ obs = Observe("init", Core)

SpecFrames == InitFrames /\ [][Next]_vars

----------------------------------------------------------------------------
(* C16: a read that yields no newline yet *)

\* the data of connection c has no newline once the chunk is appended
NeedMore(c, chunk) == FindNewline(bufs[c] \o chunk) = 0

\* C16: when a read on a client connection yields data with no newline yet,
\* the connection stays open with the partial data buffered (and no reply is
\* sent and the session is as it was), so that the frame can be dispatched
\* once the rest arrives.
C16_PartialFrameKept ==
    [][\A c \in Conns : \A chunk \in Chunks :
          (NeedMore(c, chunk)
           /\ \E det \in env.agents, capOk \in BOOLEAN : ClientData(c, chunk, det, capOk))
          => /\ conn'[c] = "open"
             /\ bufs'[c] = bufs[c] \o chunk
             /\ sent' = <<>>
             /\ state' = state]_vars

----------------------------------------------------------------------------
(* C17: a read that delivers several complete frames *)

\* C17: between two readiness events (the dispatcher is back in epoll_wait)
\* no complete newline-terminated frame is left in the read buffer of an
\* open connection: every frame a read delivered was dispatched during that
\* readiness event.
C17_NoFrameLeftBuffered ==
    \A c \in Conns :
        (dpc = "loop" /\ conn[c] = "open") => FindNewline(bufs[c]) = 0

----------------------------------------------------------------------------
(* C18: the size of a connection's read buffer *)

\* the cap on a read buffer, in the units of the model's chunks; read_command
\* compares the buffer's size with nothing, so no value of it is the code's
BufferCap == 5

\* C18: a connection's read buffer never grows beyond the cap: a read whose
\* data takes the buffer beyond the cap closes the connection, whatever the
\* data holds.
C18_BufferCapped ==
    [][\A c \in Conns : \A chunk \in Chunks :
          (Len(bufs[c] \o chunk) > BufferCap
           /\ \E det \in env.agents, capOk \in BOOLEAN : ClientData(c, chunk, det, capOk))
          => conn'[c] = "closed"]_vars

----------------------------------------------------------------------------
(* C19: the failure path of the client branch *)

\* the first line of connection c's data, once the chunk is appended, is
\* complete and json::parse throws on it
Malformed(c, chunk) ==
    LET b1 == bufs[c] \o chunk
        pos == FindNewline(b1)
    IN  pos # 0 /\ ~IsJson(SubSeq(b1, 1, pos - 1))

\* C19: when the read on a client connection reports a disconnect or a
\* frame that is not valid JSON, that connection is closed, its read buffer
\* is discarded and it is removed from the waiting list; nothing is sent,
\* the session, the capture, the worker and its result slot are as they
\* were, and the other connections and their buffers are untouched.
C19_FailedReadClosesOnlyThatClient ==
    [][\A c \in Conns :
          (obs'.op \in {"eof", "malformed"}
           /\ \/ ClientEOF(c)
              \/ \E chunk \in Chunks :
                    /\ Malformed(c, chunk)
                    /\ \E det \in env.agents, capOk \in BOOLEAN :
                          ClientData(c, chunk, det, capOk))
          => /\ conn' = [conn EXCEPT ![c] = "closed"]
             /\ bufs' = [bufs EXCEPT ![c] = <<>>]
             /\ waiting_clients' = SelectSeq(waiting_clients, LAMBDA x : x # c)
             /\ sent' = <<>>
             /\ UNCHANGED <<state, window_context, capturing, ring, focused_window,
                            pending_output_method, worker_result, wpc, wlocal,
                            tokens, dpc>>]_vars

\* a malformed frame has just closed a connection while the worker runs, and
\* the other connection is still open, waiting for the result, with a frame
\* in its buffer
C19_Witness ==
    /\ obs.op = "malformed"
    /\ state = "Transcribing"
    /\ wpc = "call"
    /\ \E c \in Conns, d \in Conns :
          /\ c # d
          /\ conn[c] = "closed"
          /\ conn[d] = "open"
          /\ bufs[d] # <<>>
          /\ waiting_clients = <<d>>

----------------------------------------------------------------------------
(* C20: errors while a client frame is handled *)

\* the commands handle_command knows
Commands == {"start", "stop", "toggle", "status", "history"}

\* C20: no JSON frame a client sends stops the dispatcher, and a frame whose
\* cmd is missing or is none of the known commands (JSON that is no object
\* and a cmd of another type included) is answered on its connection with
\* {status: error, message: "unknown command"}.
C20_EveryFrameAnswered ==
    [][\A c \in Conns : \A b \in env.bodies :
          CmdStep(c, b)
          => /\ dpc' = "loop"
             /\ Parsed(b).cmd \notin Commands
                => /\ Len(sent') = 1
                   /\ sent'[1].fd = c
                   /\ sent'[1].frame = ErrorFrame("unknown command")]_vars

----------------------------------------------------------------------------
(* C21, C22: failures at completion *)

\* C21: when the worker's transcription failed, completion sends
\* {status: error, message: <the error>} to every waiter, inserts no history
\* record, builds and invokes no output adapter, and the session is Idle
\* afterwards.
C21_FailedTranscription ==
    [][(CompletionStep /\ ~worker_result.result.ok) =>
         /\ Len(sent') = Len(waiting_clients)
         /\ \A i \in 1..Len(waiting_clients) :
               /\ sent'[i].fd = waiting_clients[i]
               /\ sent'[i].frame = ErrorFrame(worker_result.result.error)
               /\ sent'[i].frame.fields = {"status", "message"}
         /\ obs'.inserted = <<>>
         /\ obs'.delivered = <<>>
         /\ obs'.calls \cap {"insert", "deliver"} = {}
         /\ state' = "Idle"
         /\ waiting_clients' = <<>>]_vars

C21_Witness ==
    /\ Completed
    /\ obs.op = "worker_event"
    /\ state = "Idle"
    /\ obs.inserted = <<>>
    /\ obs.delivered = <<>>
    /\ Len(sent) = 1
    /\ sent[1].ok
    /\ sent[1].frame = ErrorFrame("timeout")

\* C22: when the output adapter fails at the completion of a successful
\* transcription, the waiters still receive {status: ok, text, duration,
\* processing_time}, the history record is still inserted, and the session
\* is Idle afterwards.
C22_OutputFailureNotFatal ==
    [][(CompletionStep /\ worker_result.result.ok
        /\ Len(obs'.delivered) = 1 /\ ~obs'.delivered[1].ok) =>
         /\ Len(sent') = Len(waiting_clients)
         /\ \A i \in 1..Len(waiting_clients) :
               /\ sent'[i].fd = waiting_clients[i]
               /\ sent'[i].frame = ResultFrame(worker_result.result)
               /\ sent'[i].frame.status = "ok"
               /\ sent'[i].frame.fields = {"status", "text", "duration", "processing_time"}
         /\ obs'.inserted = <<[text |-> worker_result.result.text,
                               context |-> worker_result.context]>>
         /\ state' = "Idle"
         /\ waiting_clients' = <<>>]_vars

C22_Witness ==
    /\ Completed
    /\ obs.op = "worker_event"
    /\ state = "Idle"
    /\ Len(obs.delivered) = 1
    /\ ~obs.delivered[1].ok
    /\ Len(obs.inserted) = 1
    /\ Len(sent) = 1
    /\ sent[1].ok
    /\ sent[1].frame.status = "ok"
    /\ sent[1].frame.text = "hello"

----------------------------------------------------------------------------
(* C23: the audio producer fails to start *)

\* C23: when the capture cannot be started, start_recording returns false,
\* the state stays Idle and the snapshot is the one captured before; the
\* start command is answered {status: error, message: "failed to start
\* recording"}, nothing else of the turn is touched, and a start made
\* afterwards with a working capture succeeds.
C23_ProducerFailsToStart ==
    /\ []((state = "Idle" /\ ~capturing) =>
            \A w \in Windows :
               LET r == start_recording(Core, w, FALSE)
                   later == start_recording(r.s, w, TRUE)
               IN  /\ ~r.ok
                   /\ r.s.state = "Idle"
                   /\ r.s.window_context = window_context
                   /\ ~r.s.capturing
                   /\ later.ok
                   /\ later.s.state = "Recording"
                   /\ later.s.window_context = w)
    /\ [][\A c \in Conns : \A b \in env.bodies \cap {"start", "start+type", "toggle"} :
            (state = "Idle" /\ obs'.op = "command"
             /\ \E det \in env.agents : ClientData(c, <<"{", b, "NL">>, det, FALSE))
            => /\ sent' = Reply(c, ErrorFrame("failed to start recording"))
               /\ state' = "Idle"
               /\ window_context' = window_context
               /\ ~capturing'
               /\ UNCHANGED <<waiting_clients, worker_result, wpc, wlocal, tokens,
                              conn, dpc>>]_vars

\* a start has just failed in a daemon that holds the snapshot of an earlier
\* turn while another window has the focus
C23_Witness ==
    /\ obs.op = "command"
    /\ \E c \in Conns : sent = Reply(c, ErrorFrame("failed to start recording"))
    /\ state = "Idle"
    /\ window_context # EmptyWindow
    /\ focused_window # window_context
    /\ focused_window # EmptyWindow

----------------------------------------------------------------------------
(* C24: the completion protocol between the worker and the dispatcher *)

\* C24 as stated: every run of on_transcription_complete (every read of the
\* result slot) comes after the dispatcher consumed the worker's token and
\* joined the worker.
C24_SlotReadAfterTokenAndJoin ==
    [][CompletionStep =>
         /\ tokens = 1 /\ tokens' = 0
         /\ wpc = "exit" /\ wpc' = "none"]_vars

\* C24, amended: the worker emits one token, after it wrote its result to the
\* slot; every read of the slot comes after the worker ended and was joined;
\* in the loop the dispatcher has consumed the worker's token first, one token
\* per worker, and the completion run by shutdown() leaves the token unread.
C24_CompletionProtocol ==
    /\ [](tokens <= 1)
    /\ [](tokens = 1 => wpc \in {"exit", "none"})
    /\ [][tokens' > tokens =>
            /\ wpc = "notify" /\ wpc' = "exit"
            /\ tokens = 0 /\ tokens' = 1
            /\ worker_result = [result |-> wlocal.result, context |-> wlocal.context,
                                output_method |-> wlocal.output_method]
            /\ worker_result' = worker_result]_vars
    /\ [][(tokens' < tokens /\ dpc' # "crashed") =>
            /\ dpc = "loop" /\ dpc' = "loop"
            /\ obs'.op = "worker_event"
            /\ "on_transcription_complete" \in obs'.calls]_vars
    /\ [][CompletionStep =>
            /\ wpc = "exit" /\ wpc' = "none"
            /\ "join" \in obs'.calls
            /\ worker_result' = worker_result
            /\ IF dpc' = "loop" THEN tokens = 1 /\ tokens' = 0
               ELSE tokens' = tokens]_vars

\* shutdown() has completed a turn whose token is still in the eventfd
C24_Witness ==
    /\ dpc = "exited"
    /\ Completed
    /\ "join" \in obs.calls
    /\ tokens = 1
    /\ wpc = "none"
    /\ worker_result.result = ErrResult("timeout")
    /\ state = "Idle"

----------------------------------------------------------------------------
(* C25: the dispatcher while the session is Transcribing *)

\* what the commands answer while the session is Transcribing
BusyAnswer(b) ==
    CASE Parsed(b).cmd = "status" -> StatusFrame("transcribing", FALSE)
      [] Parsed(b).cmd = "stop" -> ErrorFrame("not recording")
      [] Parsed(b).cmd = "history" -> HistoryFrame
      [] OTHER -> ErrorFrame("already recording or transcribing")

\* C25: while the session is Transcribing and the worker has not completed,
\* the dispatcher can take a command from every open connection, the
\* waiter's own included, and answers it in that step without joining the
\* worker or touching the turn; in the loop the worker is joined only by the
\* step that consumes its token.
C25_ResponsiveWhileTranscribing ==
    /\ [](\A c \in Conns : \A b \in env.bodies :
            (dpc = "loop" /\ state = "Transcribing" /\ conn[c] = "open"
             /\ Len(bufs[c]) + 3 <= env.maxbuf)
            => ENABLED CmdStep(c, b))
    /\ [][\A c \in Conns :
            \A b \in {x \in env.bodies : Parsed(x).typed /\ Parsed(x).cmd \in Commands} :
               (state = "Transcribing" /\ obs'.op = "command" /\ CmdStep(c, b))
               => /\ sent' = Reply(c, BusyAnswer(b))
                  /\ "join" \notin obs'.calls
                  /\ UNCHANGED <<state, window_context, waiting_clients, worker_result,
                                 wpc, wlocal, tokens, conn, dpc>>]_vars
    /\ [][(dpc' = "loop" /\ wpc # "none" /\ wpc' = "none") =>
            /\ wpc = "exit"
            /\ tokens = 1 /\ tokens' = 0
            /\ obs'.op = "worker_event"]_vars

\* the waiter itself asked for the status while the worker was in the backend
C25_Witness ==
    /\ obs.op = "command"
    /\ state = "Transcribing"
    /\ wpc = "call"
    /\ \E c \in Conns :
          /\ waiting_clients = <<c>>
          /\ sent = Reply(c, StatusFrame("transcribing", FALSE))

----------------------------------------------------------------------------
(* C26: toggle *)

\* the request bodies with and without the output field
OutputVariants == {"", "+type"}

\* C26: in every reachable state and for every input, toggle returns the
\* response and leaves the core as stop does when the session is Recording
\* and as start does otherwise; and the dispatcher's step for a toggle frame
\* read into an empty buffer is the step it takes for the stop or start
\* frame (the reply sent or the sender put on the waiting list included),
\* and the other way round.
C26_ToggleIsStopOrStart ==
    /\ [](\A o \in OutputVariants : \A det \in Agents : \A capOk \in BOOLEAN :
            handle_command(Core, Parsed("toggle" \o o), det, capOk)
              = handle_command(Core, Parsed((IF state = "Recording" THEN "stop"
                                             ELSE "start") \o o), det, capOk))
    /\ [][\A c \in Conns :
            (obs'.op = "command" /\ bufs[c] = <<>>) =>
               /\ CmdStep(c, "toggle")
                  => IF state = "Recording" THEN CmdStep(c, "stop")
                     ELSE CmdStep(c, "start")
               /\ (state = "Recording" /\ CmdStep(c, "stop")) => CmdStep(c, "toggle")
               /\ (state # "Recording" /\ CmdStep(c, "start")) => CmdStep(c, "toggle")]_vars

\* a toggle was refused while the worker runs for the connection that waits
C26_Witness ==
    /\ env.bodies = {"toggle"}
    /\ obs.op = "command"
    /\ state = "Transcribing"
    /\ wpc = "call"
    /\ waiting_clients = <<1>>
    /\ sent = Reply(2, ErrorFrame("already recording or transcribing"))

----------------------------------------------------------------------------
(* C27: status *)

\* the response of status in a session state
StatusOf(st) ==
    [status |-> "ok", message |-> "", text |-> "",
     state |-> CASE st = "Idle" -> "idle"
                 [] st = "Recording" -> "recording"
                 [] st = "Transcribing" -> "transcribing",
     fields |-> IF st = "Recording" THEN {"status", "state", "duration"}
                ELSE {"status", "state"}]

\* C27: status is a pure query: in every reachable state the handler returns
\* the core as it was, however often it is applied, and the dispatcher's step
\* for a status frame changes nothing of the session, the ring, the waiting
\* list, the worker and the snapshot; the response names the current state
\* and carries a duration exactly when the state is Recording, and
\* recording_duration is 0 outside Recording.
C27_StatusIsPureQuery ==
    /\ [](/\ handle_status(Core).s = Core
          /\ handle_status(handle_status(Core).s) = handle_status(Core)
          /\ handle_status(Core).resp = StatusOf(state)
          /\ \A elapsed \in 0..CountCap :
                recording_duration(Core, elapsed)
                  = (IF state = "Recording" THEN elapsed ELSE 0))
    /\ [][\A c \in Conns :
            (obs'.op = "command" /\ CmdStep(c, "status")) =>
               /\ sent' = Reply(c, StatusOf(state))
               /\ UNCHANGED <<state, window_context, capturing, ring, focused_window,
                              pending_output_method, waiting_clients, worker_result,
                              wpc, wlocal, turn, tokens, conn, dpc>>]_vars

\* a status was answered during a recording that has audio in the ring
C27_Witness ==
    /\ obs.op = "command"
    /\ state = "Recording"
    /\ available(ring) > 0
    /\ \E c \in Conns : sent = Reply(c, StatusFrame("recording", TRUE))

----------------------------------------------------------------------------
(* C28: set_transcribing and set_idle *)

\* C28: set_transcribing() and set_idle() write the state whatever it was:
\* after set_transcribing() the state is Transcribing, after set_idle() it is
\* Idle, from Idle, Recording and Transcribing alike, and they write nothing
\* else (the capture, the ring and the snapshot are as they were).
C28_UnconditionalStateWrites ==
    /\ [](\A st \in {"Idle", "Recording", "Transcribing"} :
            /\ set_transcribing([Core EXCEPT !.state = st])
                 = [Core EXCEPT !.state = "Transcribing"]
            /\ set_idle([Core EXCEPT !.state = st]) = [Core EXCEPT !.state = "Idle"])
    /\ [][SessSetTranscribing =>
            /\ state' = "Transcribing"
            /\ UNCHANGED <<window_context, capturing, ring>>]_vars
    /\ [][SessSetIdle =>
            /\ state' = "Idle"
            /\ UNCHANGED <<window_context, capturing, ring>>]_vars

\* set_transcribing() was called on a session that never recorded
C28_Witness ==
    /\ obs.op = "set_transcribing"
    /\ state = "Transcribing"
    /\ ~capturing
    /\ ring = EmptyRing
    /\ window_context = EmptyWindow

----------------------------------------------------------------------------
(* C29: the ring's capacity and a recording that fits in it.  The Session   *)
(* is driven directly over a ring built as LinuxEventLoop's constructor     *)
(* builds it, from the configuration                                        *)

MaxSeconds == 2
MaxSampleRate == 2

\* a ring size that does not depend on max_seconds
ring_buffer_bytes_fixed(audio) == 4

\* Config::Audio::ring_buffer_bytes; sizeof(int16_t) is 2
ring_buffer_bytes(audio) == audio.max_seconds * audio.sample_rate * 2

\* the configurations of the audio section
AudioConfigs ==
    {[max_seconds |-> ms, sample_rate |-> sr] : ms \in 1..MaxSeconds, sr \in 1..MaxSampleRate}

ConfigEnv(audio) ==
    [bodies |-> {}, agents |-> Agents, results |-> {}, pairs |-> {},
     maxbuf |-> MaxBuf, audio |-> audio]

InitConfig ==
    \E audio \in AudioConfigs :
        /\ env = ConfigEnv(audio)
        /\ ring = NewRing(ring_buffer_bytes(audio))
        /\ rq = NoRingOp
        /\ state = "Idle"
        /\ window_context = EmptyWindow
        /\ capturing = FALSE
        /\ focused_window = EmptyWindow
        /\ pending_output_method = ""
        /\ waiting_clients = <<>>
        /\ worker_result = EmptySlot
        /\ wpc = "none"
        /\ wlocal = NoLocal
        /\ tokens = 0
        /\ conn = [c \in Conns |-> "closed"]
        /\ bufs = [c \in Conns |-> <<>>]
        /\ dpc = "loop"
        /\ sent = <<>>
        /\ turn = NewTurn
        /\ obs = Observe("init", Core)

SpecConfig == InitConfig /\ [][NextSession]_vars

\* the bytes the ring holds, oldest first
Held(rb) == [k \in 1..(rb.w - rb.r) |-> rb.buf[(rb.r + k - 1) % capacity(rb)]]

\* C29: the ring's capacity is max_seconds * sample_rate * 2 bytes; a
\* recording starts with the ring empty and nothing reads it before the
\* stop, so what the ring holds is what the producer wrote in this turn; a
\* write that keeps the turn's total within the capacity is accepted in
\* full, and the stop returns all the bytes written, as whole samples.
C29_NothingDroppedWithinCapacity ==
    /\ [](capacity(ring) = env.audio.max_seconds * env.audio.sample_rate * 2)
    /\ [](state = "Recording" => (ring.r = 0 /\ ring.w <= capacity(ring)))
    /\ [][(state # "Recording" /\ state' = "Recording") =>
            (ring'.w = 0 /\ ring'.r = 0)]_vars
    /\ [][\A data \in SeqsUpTo(Bytes, MaxWrite) \ {<<>>} :
            (state = "Recording" /\ ProducerWrite(data)
             /\ ring.w + Len(data) <= capacity(ring))
            => /\ state' = "Recording"
               /\ Held(ring') = Held(ring) \o data]_vars
    /\ [][(state = "Recording" /\ SessStop) =>
            /\ Len(obs'.ret.samples) = ring.w \div 2
            /\ obs'.ret.samples = Samples(SubSeq(Held(ring), 1, 2 * (ring.w \div 2)))
            /\ ring'.w - ring'.r = ring.w % 2]_vars

\* a recording that filled the largest ring to the last byte was stopped and
\* returned four samples
C29_Witness ==
    /\ obs.op = "stop_recording"
    /\ state = "Transcribing"
    /\ env.audio = [max_seconds |-> MaxSeconds, sample_rate |-> MaxSampleRate]
    /\ ring.w = capacity(ring)
    /\ Len(obs.ret.samples) = MaxSeconds * MaxSampleRate

----------------------------------------------------------------------------
(* C30: wav::encode.  The bytes are those of a little-endian host; the      *)
(* uint32_t and uint16_t arithmetic keeps its width                         *)

MaxSamples == 2

\* int16_t values, the ones tests/test_window_info.cpp encodes
SampleValues == {0, 100, -100, 32767, -32768}

\* sample rates: the default, a common one, and two that are 2^28 and more
SampleRates == {16000, 48000, 268435456, 268451456}

\* the object representation of a uint16_t / uint32_t, as memcpy copies it
LE16(v) == <<v % 256, (v \div 256) % 256>>
LE32(v) == <<v % 256, (v \div 256) % 256, (v \div 65536) % 256, (v \div 16777216) % 256>>

\* and of an int16_t (two's complement)
LES16(v) == LE16(IF v < 0 THEN v + 65536 ELSE v)

RECURSIVE SampleBytes(_)
SampleBytes(samples) ==
    IF samples = <<>> THEN <<>>
    ELSE LES16(Head(samples)) \o SampleBytes(Tail(samples))

\* the chunk tags, in ASCII
RIFF == <<82, 73, 70, 70>>
WAVE == <<87, 65, 86, 69>>
FMT == <<102, 109, 116, 32>>
DATA == <<100, 97, 116, 97>>

\* sample_rate * channels * bits_per_sample / 8 in unsigned int arithmetic:
\* ((sample_rate * 16) mod 2^32) / 8, which is (sample_rate mod 2^28) * 2
byte_rate(sample_rate) == (sample_rate % 268435456) * 2

\* wav::encode
encode(samples, sample_rate) ==
    LET block_align == (1 * 16) \div 8
        data_size == Len(samples) * 2
        file_size == 36 + data_size
    IN  RIFF \o LE32(file_size) \o WAVE
        \o FMT \o LE32(16) \o LE16(1) \o LE16(1)
        \o LE32(sample_rate) \o LE32(byte_rate(sample_rate))
        \o LE16(block_align) \o LE16(16)
        \o DATA \o LE32(data_size)
        \o SampleBytes(samples)

\* reading the file back, as read_u16 / read_u32 of the tests and the cast to
\* int16_t do; pos counts from 0
read_u16(out, pos) == out[pos + 1] + 256 * out[pos + 2]
read_u32(out, pos) ==
    out[pos + 1] + 256 * out[pos + 2] + 65536 * out[pos + 3] + 16777216 * out[pos + 4]
read_tag(out, pos) == SubSeq(out, pos + 1, pos + 4)
read_s16(out, pos) ==
    LET u == read_u16(out, pos) IN IF u >= 32768 THEN u - 65536 ELSE u
read_samples(out) == [k \in 1..((Len(out) - 44) \div 2) |-> read_s16(out, 44 + 2 * (k - 1))]

WavEnv(samples, sample_rate) ==
    [bodies |-> {}, agents |-> {""}, results |-> {}, pairs |-> {}, maxbuf |-> MaxBuf,
     samples |-> samples, sample_rate |-> sample_rate]

InitWav ==
    \E samples \in SeqsUpTo(SampleValues, MaxSamples), sample_rate \in SampleRates :
        /\ env = WavEnv(samples, sample_rate)
        /\ rq = NoRingOp
        /\ state = "Idle"
        /\ window_context = EmptyWindow
        /\ capturing = FALSE
        /\ ring = EmptyRing
        /\ focused_window = EmptyWindow
        /\ pending_output_method = ""
        /\ waiting_clients = <<>>
        /\ worker_result = EmptySlot
        /\ wpc = "none"
        /\ wlocal = NoLocal
        /\ tokens = 0
        /\ conn = [c \in Conns |-> "closed"]
        /\ bufs = [c \in Conns |-> <<>>]
        /\ dpc = "loop"
        /\ sent = <<>>
        /\ turn = NewTurn
        /\ obs = Observe("init", Core)

\* LanBackend::transcribe encodes the audio
WavEncode ==
    /\ obs.op = "init"
    /\ obs' = [op |-> "wav::encode", calls |-> {"wav::encode"}, inserted |-> <<>>,
               delivered |-> <<>>,
               ret |-> [ok |-> TRUE, samples |-> <<>>,
                        wav |-> encode(env.samples, env.sample_rate)]]
    /\ UNCHANGED <<coreVars, tokens, conn, bufs, dpc, sent, env, rq>>

NextWav == WavEncode

SpecWav == InitWav /\ [][NextWav]_vars

\* C30: wav::encode(samples, rate) is 44 + 2 * |samples| bytes: a RIFF/WAVE
\* header with chunk size 36 + data size, PCM format 1, 1 channel, the sample
\* rate, byte rate = rate * 2, block align 2, 16 bits per sample and data size
\* 2 * |samples|, then the samples unchanged and in order, so that reading the
\* output back yields the input.
C30_EncodeRoundTrip ==
    obs.op = "wav::encode" =>
        LET out == obs.ret.wav
            n == Len(env.samples)
        IN  /\ Len(out) = 44 + 2 * n
            /\ read_tag(out, 0) = RIFF
            /\ read_u32(out, 4) = 36 + 2 * n
            /\ read_tag(out, 8) = WAVE
            /\ read_tag(out, 12) = FMT
            /\ read_u32(out, 16) = 16
            /\ read_u16(out, 20) = 1
            /\ read_u16(out, 22) = 1
            /\ read_u32(out, 24) = env.sample_rate
            /\ read_u32(out, 28) = env.sample_rate * 2
            /\ read_u16(out, 32) = 2
            /\ read_u16(out, 34) = 16
            /\ read_tag(out, 36) = DATA
            /\ read_u32(out, 40) = 2 * n
            /\ read_samples(out) = env.samples

----------------------------------------------------------------------------
(* DaemonCore driven command by command, with the audio thread's callback  *)
(* followed load by load and byte by byte, and the worker thread           *)

InstallCore(s) ==
    /\ state' = s.state
    /\ window_context' = s.window_context
    /\ capturing' = s.capturing
    /\ ring' = s.ring
    /\ focused_window' = s.focused_window
    /\ pending_output_method' = s.pending_output_method
    /\ waiting_clients' = s.waiting_clients
    /\ worker_result' = s.worker_result
    /\ wpc' = s.wpc
    /\ wlocal' = s.wlocal
    /\ turn' = s.turn

\* the commands the capture specification sends
CaptureBodies == {"start", "stop", "toggle"}

\* core_.handle_command(cmd_str, cmd) for the frame with body b. A call of
\* PipeWireCapture::stop inside returns from pw_thread_loop_stop only when the
\* audio thread has left on_process; rq.accepted restarts with every
\* start_recording that succeeds
CoreCommand(b, capOk) ==
    /\ dpc = "loop"
    /\ \E h \in {handle_command(Core, Parsed(b), "", capOk)} :
          /\ "capture.stop" \in h.s.calls => rq.ppc = "idle"
          /\ InstallCore(h.s)
          /\ obs' = Observe("command", h.s)
          /\ rq' = IF state = "Idle" /\ h.s.state = "Recording"
                   THEN [rq EXCEPT !.accepted = <<>>]
                   ELSE rq
    /\ sent' = <<>>
    /\ UNCHANGED <<tokens, conn, bufs, dpc, env>>

\* an on_process that writes whatever the capturing flag says
OnProcess_unchecked(len) == WriteLoadW(len)

\* PipeWireCapture::on_process: capturing_.load(relaxed), then
\* ring_buf_.write(data, size) up to its load of the write cursor
OnProcess(len) ==
    /\ capturing
    /\ WriteLoadW(len)

NextCapture ==
    \/ \E b \in CaptureBodies, capOk \in BOOLEAN : CoreCommand(b, capOk)
    \/ \E len \in 1..RingCap : OnProcess(len)
    \/ WriteLoadR
    \/ WriteCopy
    \/ WriteStore
    \/ \E res \in env.results : WorkerCall(res)
    \/ WorkerStore
    \/ WorkerNotify
    \/ \E delivOk \in BOOLEAN : WorkerEvent(delivOk)

SpecCapture == Init /\ [][NextCapture]_vars

\* the bytes of a sequence of samples, in order
RECURSIVE BytesOf(_)
BytesOf(samples) ==
    IF samples = <<>> THEN <<>>
    ELSE <<Head(samples)[1], Head(samples)[2]>> \o BytesOf(Tail(samples))

\* a sequence cut down to a whole number of 2-byte samples
WholeSamples(bytes) == SubSeq(bytes, 1, Len(bytes) - (Len(bytes) % 2))

\* C31: what a stop hands to the worker is the bytes the ring accepted since
\* the start_recording that began the turn, in order, cut down to whole
\* samples (nothing is handed over when that is less than one sample), and
\* every turn starts on an empty ring
C31_TurnAudio ==
    [][\A b \in CaptureBodies, capOk \in BOOLEAN :
          CoreCommand(b, capOk) =>
             /\ (state = "Idle" /\ state' = "Recording") => available(ring') = 0
             /\ (state = "Recording" /\ b # "start") =>
                   /\ "drain_all" \in obs'.calls
                   /\ IF Len(rq.accepted) < 2
                      THEN state' = "Idle" /\ wpc' = wpc
                      ELSE /\ "start_transcription" \in obs'.calls
                           /\ BytesOf(wlocal'.audio) = WholeSamples(rq.accepted)]_vars

\* the second turn: the first left its third byte in the ring, and the worker
\* of the second turn was handed bytes 4 and 5
C31_Witness ==
    /\ obs.op = "command"
    /\ "start_transcription" \in obs.calls
    /\ turn.started /\ wpc = "call"
    /\ rq.accepted = <<4, 5>>
    /\ wlocal.audio = <<<<4, 5>>>>
    /\ rq.offered = 5

\* C32: once shutdown() has run the producer is not capturing and no worker
\* thread is left unjoined; a shutdown in Recording stops the producer and
\* neither drains the ring nor starts a worker; a worker is joined by the
\* completion or by shutdown and by nothing else
C32_ShutdownReleases ==
    /\ [](dpc = "exited" => ~capturing /\ wpc = "none")
    /\ [][\A delivOk \in BOOLEAN :
            (Signal(delivOk) /\ state = "Recording") =>
               /\ "capture.stop" \in obs'.calls
               /\ obs'.calls \cap {"drain_all", "start_transcription",
                                  "on_transcription_complete"} = {}
               /\ dpc' = "exited" /\ wpc' = "none" /\ state' = "Recording"]_vars
    /\ [][(wpc # "none" /\ wpc' = "none" /\ dpc' # "crashed") =>
            ("join" \in obs'.calls /\ obs'.op \in {"worker_event", "shutdown"})]_vars

\* the daemon was stopped during a recording with audio in the ring
C32_Witness ==
    /\ dpc = "exited"
    /\ obs.op = "shutdown"
    /\ state = "Recording"
    /\ available(ring) >= 2
    /\ "capture.stop" \in obs.calls
    /\ ~capturing
    /\ wpc = "none"

\* C33: every handle on the waiting list is a connection the daemon has not
\* closed; the list is non-empty only in Transcribing and then holds exactly
\* the connection whose stop or toggle started the worker; a closed
\* connection has no read buffer left, so an accepted connection starts with
\* an empty buffer and off the list, and a completion frame goes to no
\* connection but the turn's sender
C33_WaitingList ==
    /\ [](/\ \A i \in 1..Len(waiting_clients) : conn[waiting_clients[i]] # "closed"
          /\ waiting_clients # <<>> =>
                (state = "Transcribing" /\ waiting_clients = <<turn.sender>>)
          /\ Len(waiting_clients) <= 1
          /\ \A c \in Conns : conn[c] = "closed" => bufs[c] = <<>>)
    /\ [][\A c \in Conns :
            Accept(c) =>
               /\ bufs'[c] = <<>>
               /\ \A i \in 1..Len(waiting_clients') : waiting_clients'[i] # c
               /\ turn.sender # c /\ turn'.sender # c]_vars
    /\ [][CompletionStep =>
            \A i \in 1..Len(sent') : sent'[i].fd = turn.sender]_vars

\* the connection that stopped the recording was closed by the daemon during
\* the transcription, and a connection has just been accepted on the only
\* descriptor in use
C33_Witness ==
    /\ obs.op = "accept"
    /\ state = "Transcribing"
    /\ wpc # "none"
    /\ turn.started /\ turn.sender = 0
    /\ waiting_clients = <<>>
    /\ conn[1] = "open" /\ conn[2] = "closed"
    /\ bufs[1] = <<>>

\* C34: while the dispatcher is in its loop the session is Transcribing
\* exactly when a worker has been started and not joined; every run of
\* on_transcription_complete, from the worker event or from shutdown, finds
\* the session in Transcribing, in a turn not completed before, with the slot
\* holding what the turn's worker stored: a result of the backend, the turn's
\* window snapshot and the turn's output method, never the cleared slot
C34_TranscribingIffWorker ==
    /\ [](dpc = "loop" => (state = "Transcribing" <=> wpc # "none"))
    /\ [][(/\ \E delivOk \in BOOLEAN :
                 WorkerEvent(delivOk) \/ Signal(delivOk) \/ ShutdownJoin(delivOk)
           /\ "on_transcription_complete" \in obs'.calls) =>
            /\ state = "Transcribing"
            /\ wpc = "exit"
            /\ turn.started /\ turn.completions = 0
            /\ worker_result # EmptySlot
            /\ worker_result.result \in env.results
            /\ worker_result.context = window_context
            /\ worker_result.output_method = pending_output_method]_vars

\* a turn was completed, and the stop of the next recording drained no whole
\* sample: the session is Idle again with no worker, the slot still holding
\* the earlier turn's result
C34_Witness ==
    /\ obs.op = "command"
    /\ "drain_all" \in obs.calls
    /\ Len(sent) = 1 /\ sent[1].frame = ErrorFrame("no audio captured")
    /\ state = "Idle"
    /\ wpc = "none"
    /\ turn.completions = 1
    /\ worker_result # EmptySlot
    /\ dpc = "loop"

\* C35: the dispatcher writes the result slot only to clear it, with no
\* worker thread in existence, in the step that spawns the worker; the worker
\* stores into the slot the dispatcher cleared, the session in Transcribing;
\* the dispatcher reads the slot only in on_transcription_complete, after the
\* join of a worker that has ended, from the worker event and from shutdown
C35_SlotNeverShared ==
    /\ [][(wpc' = "call" /\ wpc # "call") =>
            /\ wpc = "none"
            /\ "start_transcription" \in obs'.calls
            /\ worker_result' = EmptySlot]_vars
    /\ [][worker_result' # worker_result =>
            \/ WorkerStore /\ worker_result = EmptySlot /\ state = "Transcribing"
                           /\ dpc \in {"loop", "shutdown"}
            \/ wpc = "none" /\ wpc' = "call"
            \/ dpc' = "crashed"]_vars
    /\ [][(/\ \E delivOk \in BOOLEAN :
                 WorkerEvent(delivOk) \/ Signal(delivOk) \/ ShutdownJoin(delivOk)
           /\ "on_transcription_complete" \in obs'.calls) =>
            /\ wpc = "exit"
            /\ "join" \in obs'.calls
            /\ wpc' = "none"
            /\ worker_result' = worker_result]_vars

\* the worker has stored its result while the dispatcher waits in the join
\* of shutdown()
C35_Witness ==
    /\ dpc = "shutdown"
    /\ wpc = "notify"
    /\ state = "Transcribing"
    /\ worker_result # EmptySlot
    /\ worker_result.result = wlocal.result

\* C36: the audio thread is inside RingBuffer::write only while the capturing
\* flag is set; every reset of the ring is made with the flag clear and the
\* audio thread outside write, and the flag is set only on a ring just reset;
\* at all times R <= W and W - R <= B
C36_ResetWhileQuiescent ==
    /\ [](/\ rq.ppc # "idle" => capturing
          /\ ring.r <= ring.w
          /\ ring.w - ring.r <= capacity(ring))
    /\ [][\A b \in CaptureBodies, capOk \in BOOLEAN :
            CoreCommand(b, capOk) =>
               /\ ("ring.reset" \in obs'.calls \/ ring'.w < ring.w \/ ring'.r < ring.r) =>
                     (~capturing /\ rq.ppc = "idle")
               /\ (capturing' /\ ~capturing) =>
                     ("ring.reset" \in obs'.calls /\ ring'.w = 0 /\ ring'.r = 0)]_vars

\* the second recording has just been started: the ring was reset after the
\* audio thread had filled it past its capacity in the first
C36_Witness ==
    /\ obs.op = "command"
    /\ "ring.reset" \in obs.calls
    /\ state = "Recording" /\ capturing
    /\ turn.completions = 1
    /\ rq.offered > capacity(ring)
    /\ rq.ppc = "idle"
    /\ ring.w = 0 /\ ring.r = 0
    /\ \A i \in DOMAIN ring.buf : ring.buf[i] # 0

\* C37: while the dispatcher is in its loop the producer is capturing exactly
\* when the session is Recording, and the producer writes into the ring in
\* no other state
C37_CapturingIffRecording ==
    /\ [](dpc = "loop" => (capturing <=> state = "Recording"))
    /\ [][(ring'.w > ring.w /\ dpc = "loop") => state = "Recording"]_vars

\* a stop has just ended a recording: the capture is off, the worker runs
C37_Witness ==
    /\ dpc = "loop"
    /\ obs.op = "command"
    /\ {"capture.stop", "drain_all", "start_transcription"} \subseteq obs.calls
    /\ state = "Transcribing"
    /\ ~capturing
    /\ wpc = "call"
    /\ available(ring) = 1

----------------------------------------------------------------------------
(* The daemon with clients whose start names no output method and whose    *)
(* stop and toggle name "type"                                              *)

OutputEnv ==
    [bodies |-> {"start", "stop+type", "toggle+type"},
     agents |-> {""},
     results |-> {OkResult("hello")},
     pairs |-> {},
     maxbuf |-> MaxBuf]

InitOutput ==
    /\ env = OutputEnv
    /\ rq = NoRingOp
    /\ state = "Idle"
    /\ window_context = EmptyWindow
    /\ capturing = FALSE
    /\ ring = EmptyRing
    /\ focused_window = EmptyWindow
    /\ pending_output_method = ""
    /\ waiting_clients = <<>>
    /\ worker_result = EmptySlot
    /\ wpc = "none"
    /\ wlocal = NoLocal
    /\ tokens = 0
    /\ conn = [c \in Conns |-> "closed"]
    /\ bufs = [c \in Conns |-> <<>>]
    /\ dpc = "loop"
    /\ sent = <<>>
    /\ turn = NewTurn
    /\ obs = Observe("init", Core)

SpecOutput == InitOutput /\ [][Next]_vars

\* cmd.value("output", config_.output.default_method) for the frame with body b
OutputOf(b) == IF Parsed(b).output = "" THEN DefaultMethod ELSE Parsed(b).output

\* C38: the command that takes the session from Idle to Recording fixes the
\* pending output method to its output field, or to the default when it has
\* none; no step taken in Recording or Transcribing changes it, whatever
\* output field the command carries; the stop hands it to the worker, the
\* worker stores it, and the completion passes that method to the output
\* factory and delivers with it
C38_OutputFixedAtStart ==
    /\ [][\A c \in Conns, b \in env.bodies :
            (state = "Idle" /\ state' = "Recording" /\ CmdStep(c, b)) =>
               pending_output_method' = OutputOf(b)]_vars
    /\ [][(state # "Idle" /\ dpc' # "crashed") =>
            pending_output_method' = pending_output_method]_vars
    /\ [][(wpc' = "call" /\ wpc # "call") =>
            wlocal'.output_method = pending_output_method]_vars
    /\ [][CompletionStep =>
            /\ worker_result.output_method = pending_output_method
            /\ \A i \in 1..Len(obs'.delivered) :
                  obs'.delivered[i].adapter = pending_output_method]_vars

\* a turn begun by a start without an output field and ended by a stop or
\* toggle naming "type" was delivered through the default method
C38_Witness ==
    /\ env = OutputEnv
    /\ Completed
    /\ Len(obs.delivered) = 1
    /\ obs.delivered[1].adapter = "clipboard"
    /\ obs.delivered[1].text = "hello"
    /\ pending_output_method = DefaultMethod
    /\ state = "Idle"

\* the rejection of handle_start
Busy == ErrorFrame("already recording or transcribing")

====
